---- MODULE Spec2Model ----
(***************************************************************************)
(* A model of messageflow's schema merge (MergeSchemas), schema diff       *)
(* (CompareSchemas, compareServiceOperations, operationKey) and of the     *)
(* changelog store kept by the docs generator (processMetadata).           *)
(*                                                                         *)
(* Go slices are sequences.  A nil *Channel is the empty sequence and a    *)
(* non-nil one a sequence of length one.  Go maps are functions; ranging   *)
(* over a map visits its keys in an order the runtime picks, so every      *)
(* loop over a map yields the set of results of all visiting orders.       *)
(***************************************************************************)
EXTENDS Integers, Sequences, FiniteSets, TLC

VARIABLES
    pc,          \* the step the program is at
    schemas,     \* the arguments of MergeSchemas
    merged,      \* MergeSchemas(schemas...)
    again1,      \* MergeSchemas(merged)
    again2,      \* MergeSchemas(merged, merged)
    swapped,     \* MergeSchemas of the two arguments in the other order
    oldSchema,   \* first argument of CompareSchemas
    newSchema,   \* second argument of CompareSchemas
    changelog,   \* the Changelog CompareSchemas returned
    reversed,    \* the Changelog CompareSchemas(newSchema, oldSchema) returned
    clock,       \* the value time.Now() returns next
    file,        \* messageflow.json in the output directory
    readme,      \* README.md in the output directory
    current,     \* the schema and metadata of the Generate call under way
    runs,        \* number of Generate calls made
    err,         \* what the last Generate call returned
    sorted,      \* merged after Sort
    remerged,    \* what another call of MergeSchemas(schemas...) returned
    resorted,    \* remerged after Sort
    viewSchema,  \* the schema FormatSchema is called with
    opts,        \* the FormatOptions FormatSchema is called with
    viewPayload, \* the payload FormatSchema prepared for its template
    contextPayload, \* the payload FormatSchema prepared for the context view
    fs,          \* the FormattedSchema FormatSchema returned
    formatErr,   \* the error FormatSchema returned
    units,       \* the functions handed to g.Go, and how far each has come
    cancelled,   \* whether the context of the errgroup is cancelled
    groupErr,    \* the error the errgroup keeps
    diagramsErr, \* what generateDiagrams returned
    diagrams     \* the files of the diagrams directory

mergeVars == <<schemas, merged, again1, again2, swapped>>

diffVars == <<oldSchema, newSchema, changelog, reversed>>

docsVars == <<file, readme, current, runs, err>>

sortVars == <<sorted, remerged, resorted>>

viewVars == <<viewSchema, opts, viewPayload, contextPayload, fs, formatErr>>

diagVars == <<units, cancelled, groupErr, diagramsErr, diagrams>>

vars == <<pc, clock, mergeVars, diffVars, docsVars, sortVars, viewVars, diagVars>>

(***************************************************************************)
(* Bounds of the model.                                                    *)
(***************************************************************************)
MaxSchemas == 3
MaxServices == 3
MaxOps == 2
MaxDiffOps == 3
MaxRuns == 3

(***************************************************************************)
(* Data model.                                                             *)
(***************************************************************************)
ActionSend == "send"
ActionReceive == "receive"

Message(name, payload) == [Name |-> name, Payload |-> payload]

Channel(name, messages) == [Name |-> name, Messages |-> messages]

NoReply == <<>>

Operation(action, channel, reply) ==
    [Action |-> action, Channel |-> channel, Reply |-> reply]

Service(name, description, operation) ==
    [Name |-> name, Description |-> description, Operation |-> operation]

Schema(services) == [Services |-> services]

EmptySchema == Schema(<<>>)

ChangeTypeAdded == "added"
ChangeTypeRemoved == "removed"
ChangeTypeChanged == "changed"

\* Diff is <<>> for the empty string and <<old, new>> for cmp.Diff(old, new).
Change(type, category, name, details, diff, timestamp) ==
    [Type |-> type, Category |-> category, Name |-> name, Details |-> details,
     Diff |-> diff, Timestamp |-> timestamp]

Changelog(date, changes) == [Date |-> date, Changes |-> changes]

Metadata(schema, changelogs) == [Schema |-> schema, Changelogs |-> changelogs]

\* A file of the output directory: absent, readable with its JSON document
\* in data, or present and not a JSON document.
AbsentFile == [state |-> "absent", data |-> <<>>]

ValidFile(json) == [state |-> "valid", data |-> <<json>>]

CorruptFile == [state |-> "corrupt", data |-> <<>>]

\* The output directory and the Generate call before the first call.
NoDocs ==
    /\ file = AbsentFile
    /\ readme = <<>>
    /\ current = Metadata(EmptySchema, <<>>)
    /\ runs = 0
    /\ err = "nil"

FormattedSchema(type, data) == [Type |-> type, Data |-> data]

FormatOptions(mode, service, channel, omitPayloads) ==
    [Mode |-> mode, Service |-> service, Channel |-> channel,
     OmitPayloads |-> omitPayloads]

\* Load before Sort was called.
NoSort ==
    /\ sorted = EmptySchema
    /\ remerged = EmptySchema
    /\ resorted = EmptySchema

\* The target before FormatSchema was called.  A nil error is the empty
\* sequence and an error a sequence of length one, and so is the payload.
\* No diagram was asked for.
NoDiagrams ==
    /\ units = <<>>
    /\ cancelled = FALSE
    /\ groupErr = <<>>
    /\ diagramsErr = <<>>
    /\ diagrams = {}

NoView ==
    /\ viewSchema = EmptySchema
    /\ opts = FormatOptions("", "", "", FALSE)
    /\ viewPayload = <<>>
    /\ contextPayload = <<>>
    /\ fs = FormattedSchema("", <<>>)
    /\ formatErr = <<>>

(***************************************************************************)
(* operationKey: "%s-%s-%s" of action, channel name and first message      *)
(* name, followed by "-reply-%s-%s" of the reply channel name and its      *)
(* first message name when the operation has a reply.                      *)
(***************************************************************************)
operationKey(op) ==
    LET messageName ==
            IF Len(op.Channel.Messages) > 0 THEN op.Channel.Messages[1].Name ELSE ""
        key == op.Action \o "-" \o op.Channel.Name \o "-" \o messageName
    IN  IF op.Reply # NoReply
        THEN LET replyMessageName ==
                     IF Len(op.Reply[1].Messages) > 0
                     THEN op.Reply[1].Messages[1].Name
                     ELSE ""
             IN  key \o "-reply-" \o op.Reply[1].Name \o "-" \o replyMessageName
        ELSE key

(***************************************************************************)
(* Helpers for Go maps and slices.                                         *)
(***************************************************************************)
Range(f) == {f[x] : x \in DOMAIN f}

\* The orders in which a loop may visit the finite set S.
Orders(S) ==
    {f \in [1..Cardinality(S) -> S] : \A i, j \in DOMAIN f : i # j => f[i] # f[j]}

\* The slices a loop "for _, v := range m { out = append(out, v) }" can build.
MapValues(m) == {[i \in DOMAIN ord |-> m[ord[i]]] : ord \in Orders(DOMAIN m)}

\* OpMap with a write that keeps the entry a key already has.
OpMapFirstWins(ops) ==
    [k \in {operationKey(ops[i]) : i \in DOMAIN ops} |->
        LET first == CHOOSE i \in DOMAIN ops :
                         /\ operationKey(ops[i]) = k
                         /\ \A j \in DOMAIN ops : operationKey(ops[j]) = k => i <= j
        IN  ops[first]]

\* opMap after "opMap[operationKey(op)] = op" for each op of ops in order.
OpMap(ops) ==
    [k \in {operationKey(ops[i]) : i \in DOMAIN ops} |->
        LET last == CHOOSE i \in DOMAIN ops :
                        /\ operationKey(ops[i]) = k
                        /\ \A j \in DOMAIN ops : operationKey(ops[j]) = k => j <= i
        IN  ops[last]]

RECURSIVE Flatten(_)
Flatten(seqs) == IF seqs = <<>> THEN <<>> ELSE Head(seqs) \o Flatten(Tail(seqs))

(***************************************************************************)
(* MergeSchemas.                                                           *)
(***************************************************************************)
\* MergeService without the loop over existingService.Operation.
MergeServiceOverwrite(sm, service) ==
    IF service.Name \in DOMAIN sm
    THEN LET existingService == sm[service.Name]
             opMap == OpMap(service.Operation)
         IN  {[sm EXCEPT ![service.Name] =
                  [existingService EXCEPT !.Operation = mergedOps]] :
                    mergedOps \in MapValues(opMap)}
    ELSE {[n \in DOMAIN sm \cup {service.Name} |->
              IF n = service.Name THEN service ELSE sm[n]]}

\* One iteration of the inner loop: the service maps that can result from
\* visiting service with serviceMap = sm.
MergeService(sm, service) ==
    IF service.Name \in DOMAIN sm
    THEN LET existingService == sm[service.Name]
             opMap == OpMap(existingService.Operation \o service.Operation)
         IN  {[sm EXCEPT ![service.Name] =
                  [existingService EXCEPT !.Operation = mergedOps]] :
                    mergedOps \in MapValues(opMap)}
    ELSE {[n \in DOMAIN sm \cup {service.Name} |->
              IF n = service.Name THEN service ELSE sm[n]]}

\* The loop over the services that ends at the first repeated name.
RECURSIVE MergeServicesUntilRepeat(_, _)
MergeServicesUntilRepeat(sms, services) ==
    IF services = <<>> \/ \E sm \in sms : Head(services).Name \in DOMAIN sm
    THEN sms
    ELSE MergeServicesUntilRepeat(UNION {MergeService(sm, Head(services)) : sm \in sms},
                                  Tail(services))

RECURSIVE MergeServices(_, _)
MergeServices(sms, services) ==
    IF services = <<>>
    THEN sms
    ELSE MergeServices(UNION {MergeService(sm, Head(services)) : sm \in sms},
                       Tail(services))

EmptyMap == [n \in {} |-> EmptySchema]

\* MergeSchemas with serviceMap made anew for every input schema.
MergeSchemasMapPerSchema(ss) ==
    IF Len(ss) = 0
    THEN {Schema(<<>>)}
    ELSE {Schema(mergedServices) :
             mergedServices \in
                 UNION {MapValues(sm) :
                           sm \in MergeServices({EmptyMap}, ss[Len(ss)].Services)}}

\* The set of schemas MergeSchemas(ss...) can return.
MergeSchemas(ss) ==
    IF Len(ss) = 0
    THEN {Schema(<<>>)}
    ELSE LET services == Flatten([i \in DOMAIN ss |-> ss[i].Services])
         IN  {Schema(mergedServices) :
                 mergedServices \in
                     UNION {MapValues(sm) : sm \in MergeServices({EmptyMap}, services)}}

(***************************************************************************)
(* Inputs of the merge specification.                                      *)
(***************************************************************************)
ServiceNames == {"A", "B"}

Descriptions == {"", "d"}

\* Two operations with the same key and different payloads, one with a
\* reply, and one whose message name makes its key equal to the key of the
\* operation with the reply.
MergeOps ==
    { Operation(ActionSend, Channel("c", <<Message("m", "p1")>>), NoReply),
      Operation(ActionSend, Channel("c", <<Message("m", "p2")>>), NoReply),
      Operation(ActionSend, Channel("c", <<Message("m", "p1")>>),
                <<Channel("r", <<Message("n", "p1")>>)>>),
      Operation(ActionSend, Channel("c", <<Message("m-reply-r-n", "p2")>>), NoReply) }

\* Non-decreasing maps of 1..len into 1..max: which container holds item i.
Monotone(len, max) ==
    {f \in [1..len -> 1..max] : \A i \in 1..len : i < len => f[i] <= f[i + 1]}

\* The items of seq whose container is c, in order.
RECURSIVE Pick(_, _, _)
Pick(seq, owner, c) ==
    IF seq = <<>>
    THEN <<>>
    ELSE (IF Head(owner) = c THEN <<Head(seq)>> ELSE <<>>)
             \o Pick(Tail(seq), Tail(owner), c)

\* n schemas holding the services hdr[j] (service j in schema where[j]) with
\* the operations ops[i] (operation i in service owner[i]).
BuildSchemas(n, hdr, where, ops, owner) ==
    LET svc(j) == Service(hdr[j][1], hdr[j][2], Pick(ops, owner, j))
        all == [j \in DOMAIN hdr |-> svc(j)]
    IN  [i \in 1..n |-> Schema(Pick(all, where, i))]

InitMerge ==
    /\ pc = "start"
    /\ \E n \in 0..MaxSchemas, s \in 0..MaxServices, k \in 0..MaxOps :
         \E hdr \in [1..s -> ServiceNames \X Descriptions], where \in Monotone(s, n),
            ops \in [1..k -> MergeOps], owner \in Monotone(k, s) :
              schemas = BuildSchemas(n, hdr, where, ops, owner)
    /\ merged = EmptySchema
    /\ again1 = EmptySchema
    /\ again2 = EmptySchema
    /\ swapped = EmptySchema
    /\ oldSchema = EmptySchema
    /\ newSchema = EmptySchema
    /\ changelog = Changelog(0, <<>>)
    /\ reversed = Changelog(0, <<>>)
    /\ clock = 1
    /\ NoDocs
    /\ NoSort
    /\ NoDiagrams
    /\ NoView

\* schema := messageflow.MergeSchemas(schemas...)
DoMerge ==
    /\ pc = "start"
    /\ merged' \in MergeSchemas(schemas)
    /\ pc' = "merged"
    /\ UNCHANGED <<schemas, again1, again2, swapped, clock, diffVars,
                 docsVars, sortVars, viewVars, diagVars>>

\* MergeSchemas(b, a) for the inputs <<a, b>>.
DoMergeSwapped ==
    /\ pc = "merged"
    /\ Len(schemas) = 2
    /\ swapped' \in MergeSchemas(<<schemas[2], schemas[1]>>)
    /\ pc' = "swapped"
    /\ UNCHANGED <<schemas, merged, again1, again2, clock, diffVars,
                 docsVars, sortVars, viewVars, diagVars>>

\* MergeSchemas(M) for the merged schema M = MergeSchemas(a, b).
DoRemergeAlone ==
    /\ pc = "merged"
    /\ Len(schemas) = 2
    /\ again1' \in MergeSchemas(<<merged>>)
    /\ pc' = "remerged1"
    /\ UNCHANGED <<schemas, merged, again2, swapped, clock, diffVars,
                 docsVars, sortVars, viewVars, diagVars>>

\* MergeSchemas(M, M) for the merged schema M = MergeSchemas(a, b).
DoRemergeTwice ==
    /\ pc = "merged"
    /\ Len(schemas) = 2
    /\ again2' \in MergeSchemas(<<merged, merged>>)
    /\ pc' = "remerged2"
    /\ UNCHANGED <<schemas, merged, again1, swapped, clock, diffVars,
                 docsVars, sortVars, viewVars, diagVars>>

NextMerge == DoMerge \/ DoMergeSwapped \/ DoRemergeAlone \/ DoRemergeTwice

SpecMerge == InitMerge /\ [][NextMerge]_vars

(***************************************************************************)
(* Vocabulary of the merge claims.                                         *)
(***************************************************************************)
Max(S) == CHOOSE x \in S : \A y \in S : y <= x

\* Number of positions of seq that hold x.
Count(seq, x) == Cardinality({i \in DOMAIN seq : seq[i] = x})

\* The same elements the same number of times, order aside.
SameCollection(s1, s2) ==
    \A x \in Range(s1) \cup Range(s2) : Count(s1, x) = Count(s2, x)

NamesOf(schema) == {schema.Services[i].Name : i \in DOMAIN schema.Services}

\* The operations of the services called name in schema, in order.
OpsOf(schema, name) ==
    Flatten([i \in DOMAIN schema.Services |->
                IF schema.Services[i].Name = name
                THEN schema.Services[i].Operation
                ELSE <<>>])

KeysOf(schema, name) == {operationKey(op) : op \in Range(OpsOf(schema, name))}

OpsWithKey(schema, name, k) ==
    {op \in Range(OpsOf(schema, name)) : operationKey(op) = k}

\* The inputs that have a service called name.
Holders(name) == {i \in DOMAIN schemas : name \in NamesOf(schemas[i])}

\* The inputs in which a service called name has an operation with key k.
Carriers(name, k) == {i \in DOMAIN schemas : k \in KeysOf(schemas[i], name)}

InputNames == UNION {NamesOf(schemas[i]) : i \in DOMAIN schemas}

InputKeys(name) == UNION {KeysOf(schemas[i], name) : i \in DOMAIN schemas}

\* s1 and s2 hold the same services: the same names once each, and under
\* each name the same description and the same collection of operations.
SameServices(s1, s2) ==
    /\ NamesOf(s1) = NamesOf(s2)
    /\ Len(s1.Services) = Len(s2.Services)
    /\ \A i \in DOMAIN s1.Services : \E j \in DOMAIN s2.Services :
          /\ s1.Services[i].Name = s2.Services[j].Name
          /\ s1.Services[i].Description = s2.Services[j].Description
          /\ SameCollection(s1.Services[i].Operation, s2.Services[j].Operation)

Merged == pc \in {"merged", "swapped", "remerged1", "remerged2"}

(***************************************************************************)
(* C1.  Last write wins per operation key: when a service name occurs in   *)
(* two or more inputs and several inputs carry an operation of it with     *)
(* the same key, the merged service holds exactly one operation with that  *)
(* key, and it is an operation of the last such input.                     *)
(***************************************************************************)
C1_LastWriteWins ==
    Merged =>
        \A name \in InputNames : \A k \in InputKeys(name) :
            (Cardinality(Holders(name)) >= 2 /\ Cardinality(Carriers(name, k)) >= 2) =>
                LET ops == OpsOf(merged, name)
                    hits == {i \in DOMAIN ops : operationKey(ops[i]) = k}
                IN  /\ Cardinality(hits) = 1
                    /\ \A i \in hits :
                          ops[i] \in OpsWithKey(schemas[Max(Carriers(name, k))], name, k)

\* Three inputs carry the key, the first and the last with different
\* payloads, and the merged operation is the last one's.
C1_Witness ==
    /\ pc = "merged"
    /\ \E name \in InputNames : \E k \in InputKeys(name) :
          /\ Cardinality(Carriers(name, k)) >= 2
          /\ Max(Carriers(name, k)) = 3
          /\ \E i \in Carriers(name, k) :
                OpsWithKey(schemas[i], name, k) \cap OpsWithKey(schemas[3], name, k) = {}
          /\ Range(OpsOf(merged, name)) \subseteq OpsWithKey(schemas[3], name, k)
          /\ Len(OpsOf(merged, name)) = 1

(***************************************************************************)
(* C2.  Every operation key is kept and none is invented: under every      *)
(* service name the keys of the merged schema are the union of the keys    *)
(* of the inputs.                                                          *)
(***************************************************************************)
C2_KeysAreUnion ==
    Merged =>
        /\ NamesOf(merged) = InputNames
        /\ \A name \in InputNames : KeysOf(merged, name) = InputKeys(name)

\* A service occurring in two inputs, each of which brings a key the other
\* one lacks.
C2_Witness ==
    /\ pc = "merged"
    /\ \E name \in InputNames : \E i, j \in Holders(name) :
          /\ i # j
          /\ KeysOf(schemas[i], name) \ KeysOf(schemas[j], name) # {}
          /\ KeysOf(schemas[j], name) \ KeysOf(schemas[i], name) # {}
          /\ Cardinality(KeysOf(merged, name)) = 2

(***************************************************************************)
(* C3.  Merge idempotence: with M = MergeSchemas(a, b), MergeSchemas(M)    *)
(* and MergeSchemas(M, M) hold the same services as M, each with the same  *)
(* description and the same collection of operations.                      *)
(***************************************************************************)
C3_Idempotent ==
    /\ pc = "remerged1" => SameServices(again1, merged)
    /\ pc = "remerged2" => SameServices(again2, merged)

(***************************************************************************)
(* C4.  Merge commutes on disjoint inputs: when two inputs share no        *)
(* service name, merging them in either order gives the same services.     *)
(***************************************************************************)
C4_CommutesOnDisjoint ==
    (/\ pc = "swapped"
     /\ NamesOf(schemas[1]) \cap NamesOf(schemas[2]) = {}) =>
        SameServices(merged, swapped)

\* Both inputs are non-empty and one of them repeats a service name with
\* operations that share a key.
C4_Witness ==
    /\ pc = "swapped"
    /\ NamesOf(schemas[1]) # {}
    /\ NamesOf(schemas[2]) # {}
    /\ NamesOf(schemas[1]) \cap NamesOf(schemas[2]) = {}
    /\ Len(schemas[1].Services) = 2
    /\ Len(OpsOf(schemas[1], schemas[1].Services[1].Name)) = 2
    /\ Len(OpsOf(merged, schemas[1].Services[1].Name)) = 1
    /\ SameServices(merged, swapped)

(***************************************************************************)
(* CompareSchemas.                                                         *)
(***************************************************************************)
\* The concatenations of one sequence out of each set of sets, in order.
RECURSIVE Concats(_)
Concats(sets) ==
    IF sets = <<>>
    THEN {<<>>}
    ELSE {h \o t : h \in Head(sets), t \in Concats(Tail(sets))}

\* The slices "for k := range m { changes = append(changes, body(k)...) }"
\* can build, where body[k] is the set of slices iteration k can append.
RangeAppend(body) ==
    UNION {Concats([i \in DOMAIN ord |-> body[ord[i]]]) : ord \in Orders(DOMAIN body)}

\* The map after "m[service.Name] = service" for each service in order.
ServiceMap(services) ==
    [n \in {services[i].Name : i \in DOMAIN services} |->
        LET last == CHOOSE i \in DOMAIN services :
                        /\ services[i].Name = n
                        /\ \A j \in DOMAIN services : services[j].Name = n => j <= i
        IN  services[last]]

\* cmp.Equal that finds no two values equal.
cmpEqualNever(x, y) == FALSE

\* cmp.Equal on two []Message values.
cmpEqual(x, y) == x = y

\* cmp.Diff on two []Message values.
cmpDiff(x, y) == <<x, y>>

\* addedOperation with the test of "exists" not negated.
addedOperationExists(oldOps, newOps, newService, key, timestamp) ==
    IF key \in DOMAIN oldOps
    THEN <<Change(ChangeTypeAdded, "channel", newService.Name \o ":" \o key,
                  "'" \o newOps[key].Action \o "' on channel '"
                      \o newOps[key].Channel.Name \o "' was added to service '"
                      \o newService.Name \o "'",
                  <<>>, timestamp)>>
    ELSE <<>>

\* First loop of compareServiceOperations, one key of newOps.
addedOperation(oldOps, newOps, newService, key, timestamp) ==
    IF key \notin DOMAIN oldOps
    THEN <<Change(ChangeTypeAdded, "channel", newService.Name \o ":" \o key,
                  "'" \o newOps[key].Action \o "' on channel '"
                      \o newOps[key].Channel.Name \o "' was added to service '"
                      \o newService.Name \o "'",
                  <<>>, timestamp)>>
    ELSE <<>>

\* Second loop of compareServiceOperations, a key both maps have: the
\* change of the primary messages.
changedMessages(oldOp, newOp, newService, key, timestamp) ==
    IF ~cmpEqual(oldOp.Channel.Messages, newOp.Channel.Messages)
    THEN <<Change(ChangeTypeChanged, "message", newService.Name \o ":" \o key,
                  "Messages changed for operation '" \o newOp.Action
                      \o "' on channel '" \o newOp.Channel.Name
                      \o "' in service '" \o newService.Name \o "'",
                  cmpDiff(oldOp.Channel.Messages, newOp.Channel.Messages),
                  timestamp)>>
    ELSE <<>>

\* changedReply without the case of a reply the new operation lacks.
changedReplyNeverRemoved(oldOp, newOp, newService, key, timestamp) ==
    LET name == newService.Name \o ":" \o key \o ":reply"
        tail == " for operation '" \o newOp.Action \o "' on channel '"
                    \o newOp.Channel.Name \o "' in service '"
                    \o newService.Name \o "'"
    IN  IF oldOp.Reply # NoReply /\ newOp.Reply # NoReply
        THEN IF ~cmpEqual(oldOp.Reply[1].Messages, newOp.Reply[1].Messages)
             THEN <<Change(ChangeTypeChanged, "message", name,
                           "Reply messages changed" \o tail,
                           cmpDiff(oldOp.Reply[1].Messages, newOp.Reply[1].Messages),
                           timestamp)>>
             ELSE <<>>
        ELSE IF oldOp.Reply = NoReply /\ newOp.Reply # NoReply
        THEN <<Change(ChangeTypeAdded, "channel", name,
                      "Reply channel added" \o tail, <<>>, timestamp)>>
        ELSE <<>>

\* Second loop of compareServiceOperations, a key both maps have: the
\* change of the reply.
changedReply(oldOp, newOp, newService, key, timestamp) ==
    LET name == newService.Name \o ":" \o key \o ":reply"
        tail == " for operation '" \o newOp.Action \o "' on channel '"
                    \o newOp.Channel.Name \o "' in service '"
                    \o newService.Name \o "'"
    IN  IF oldOp.Reply # NoReply /\ newOp.Reply # NoReply
        THEN IF ~cmpEqual(oldOp.Reply[1].Messages, newOp.Reply[1].Messages)
             THEN <<Change(ChangeTypeChanged, "message", name,
                           "Reply messages changed" \o tail,
                           cmpDiff(oldOp.Reply[1].Messages, newOp.Reply[1].Messages),
                           timestamp)>>
             ELSE <<>>
        ELSE IF oldOp.Reply # NoReply /\ newOp.Reply = NoReply
        THEN <<Change(ChangeTypeRemoved, "channel", name,
                      "Reply channel removed" \o tail, <<>>, timestamp)>>
        ELSE IF oldOp.Reply = NoReply /\ newOp.Reply # NoReply
        THEN <<Change(ChangeTypeAdded, "channel", name,
                      "Reply channel added" \o tail, <<>>, timestamp)>>
        ELSE <<>>

\* removedOrChangedOperation that looks at the reply only when the primary
\* messages are equal.
removedOrChangedOperationElse(oldOps, newOps, oldService, newService, key, timestamp) ==
    IF key \notin DOMAIN newOps
    THEN <<Change(ChangeTypeRemoved, "channel", oldService.Name \o ":" \o key,
                  "'" \o oldOps[key].Action \o "' on channel '"
                      \o oldOps[key].Channel.Name \o "' was removed from service '"
                      \o oldService.Name \o "'",
                  <<>>, timestamp)>>
    ELSE IF changedMessages(oldOps[key], newOps[key], newService, key, timestamp) # <<>>
    THEN changedMessages(oldOps[key], newOps[key], newService, key, timestamp)
    ELSE changedReply(oldOps[key], newOps[key], newService, key, timestamp)

\* Second loop of compareServiceOperations, one key of oldOps.
removedOrChangedOperation(oldOps, newOps, oldService, newService, key, timestamp) ==
    IF key \notin DOMAIN newOps
    THEN <<Change(ChangeTypeRemoved, "channel", oldService.Name \o ":" \o key,
                  "'" \o oldOps[key].Action \o "' on channel '"
                      \o oldOps[key].Channel.Name \o "' was removed from service '"
                      \o oldService.Name \o "'",
                  <<>>, timestamp)>>
    ELSE changedMessages(oldOps[key], newOps[key], newService, key, timestamp)
             \o changedReply(oldOps[key], newOps[key], newService, key, timestamp)

\* compareServiceOperations whose first loop ranges over oldOps.
compareServiceOperationsRangeOld(oldService, newService, timestamp) ==
    LET oldOps == OpMap(oldService.Operation)
        newOps == OpMap(newService.Operation)
        added == [key \in DOMAIN oldOps |->
                     {addedOperation(oldOps, oldOps, newService, key, timestamp)}]
        removed == [key \in DOMAIN oldOps |->
                       {removedOrChangedOperation(oldOps, newOps, oldService,
                                                  newService, key, timestamp)}]
    IN  {a \o r : a \in RangeAppend(added), r \in RangeAppend(removed)}

\* The set of slices compareServiceOperations can return.
compareServiceOperations(oldService, newService, timestamp) ==
    LET oldOps == OpMap(oldService.Operation)
        newOps == OpMap(newService.Operation)
        added == [key \in DOMAIN newOps |->
                     {addedOperation(oldOps, newOps, newService, key, timestamp)}]
        removed == [key \in DOMAIN oldOps |->
                       {removedOrChangedOperation(oldOps, newOps, oldService,
                                                  newService, key, timestamp)}]
    IN  {a \o r : a \in RangeAppend(added), r \in RangeAppend(removed)}

\* CompareSchemas whose loops range over the slices of services instead of
\* the maps made of them.
CompareSchemasOverSlices(old, new, now) ==
    LET oldServices == ServiceMap(old.Services)
        newServices == ServiceMap(new.Services)
        added(name) ==
            IF name \notin DOMAIN oldServices
            THEN {<<Change(ChangeTypeAdded, "service", name,
                           "'" \o newServices[name].Name \o "' was added",
                           <<>>, now)>>}
            ELSE {<<>>}
        removed(name) ==
            IF name \notin DOMAIN newServices
            THEN {<<Change(ChangeTypeRemoved, "service", name,
                           "'" \o name \o "' was removed", <<>>, now)>>}
            ELSE compareServiceOperations(oldServices[name], newServices[name], now)
    IN  {Changelog(now, a \o r) :
            a \in Concats([i \in DOMAIN new.Services |-> added(new.Services[i].Name)]),
            r \in Concats([i \in DOMAIN old.Services |-> removed(old.Services[i].Name)])}

\* The set of Changelogs CompareSchemas(old, new) can return at time now.
CompareSchemas(old, new, now) ==
    LET oldServices == ServiceMap(old.Services)
        newServices == ServiceMap(new.Services)
        added(name) ==
            IF name \notin DOMAIN oldServices
            THEN {<<Change(ChangeTypeAdded, "service", name,
                           "'" \o newServices[name].Name \o "' was added",
                           <<>>, now)>>}
            ELSE {<<>>}
        removed(name) ==
            IF name \notin DOMAIN newServices
            THEN {<<Change(ChangeTypeRemoved, "service", name,
                           "'" \o name \o "' was removed", <<>>, now)>>}
            ELSE compareServiceOperations(oldServices[name], newServices[name], now)
    IN  {Changelog(now, a \o r) :
            a \in RangeAppend([name \in DOMAIN newServices |-> added(name)]),
            r \in RangeAppend([name \in DOMAIN oldServices |-> removed(name)])}

(***************************************************************************)
(* The diff specification: CompareSchemas applied to a pair of schemas     *)
(* and to a schema and itself.                                             *)
(***************************************************************************)
\* Operations with one key and different primary or reply messages, an
\* operation without a reply on the same channel and message name, one
\* whose message name makes its key equal to that of the operations with a
\* reply, and one with another key and no message.
DiffOps ==
    { Operation(ActionSend, Channel("c", <<Message("m", "p1")>>), NoReply),
      Operation(ActionSend, Channel("c", <<Message("m", "p1")>>),
                <<Channel("r", <<Message("n", "p1")>>)>>),
      Operation(ActionSend, Channel("c", <<Message("m", "p2")>>),
                <<Channel("r", <<Message("n", "p1")>>)>>),
      Operation(ActionSend, Channel("c", <<Message("m", "p1")>>),
                <<Channel("r", <<Message("n", "p2")>>)>>),
      Operation(ActionSend, Channel("c", <<Message("m-reply-r-n", "p1")>>), NoReply),
      Operation(ActionReceive, Channel("c", <<>>), NoReply) }

InitDiff ==
    /\ pc = "start"
    /\ \E s \in 0..MaxServices, k \in 0..MaxDiffOps :
         \E hdr \in [1..s -> ServiceNames \X {""}], where \in Monotone(s, 2),
            ops \in [1..k -> DiffOps], owner \in Monotone(k, s) :
              LET pair == BuildSchemas(2, hdr, where, ops, owner)
              IN  /\ oldSchema = pair[1]
                  /\ newSchema = pair[2]
    /\ changelog = Changelog(0, <<>>)
    /\ reversed = Changelog(0, <<>>)
    /\ clock = 1
    /\ NoDocs
    /\ NoSort
    /\ NoDiagrams
    /\ NoView
    /\ schemas = <<>>
    /\ merged = EmptySchema
    /\ again1 = EmptySchema
    /\ again2 = EmptySchema
    /\ swapped = EmptySchema

\* changelog := messageflow.CompareSchemas(oldSchema, newSchema)
DoCompare ==
    /\ pc = "start"
    /\ changelog' \in CompareSchemas(oldSchema, newSchema, clock)
    /\ clock' = clock + 1
    /\ pc' = "compared"
    /\ UNCHANGED <<oldSchema, newSchema, reversed, mergeVars,
                 docsVars, sortVars, viewVars, diagVars>>

\* changelog := messageflow.CompareSchemas(S, S), for S either argument.
DoCompareSelf ==
    /\ pc = "start"
    /\ \E S \in {oldSchema, newSchema} :
          /\ changelog' \in CompareSchemas(S, S, clock)
          /\ oldSchema' = S
          /\ newSchema' = S
    /\ clock' = clock + 1
    /\ pc' = "self"
    /\ UNCHANGED <<reversed, mergeVars, docsVars, sortVars, viewVars, diagVars>>

\* CompareSchemas(newSchema, oldSchema), the arguments of the call before
\* in the other order.
DoCompareReversed ==
    /\ pc = "compared"
    /\ reversed' \in CompareSchemas(newSchema, oldSchema, clock)
    /\ clock' = clock + 1
    /\ pc' = "reversed"
    /\ UNCHANGED <<oldSchema, newSchema, changelog, mergeVars,
                 docsVars, sortVars, viewVars, diagVars>>

\* CompareSchemas(oldSchema, S) for a schema S that is oldSchema with other
\* service descriptions.
DoCompareDescribed ==
    /\ pc = "start"
    /\ \E descriptions \in [DOMAIN oldSchema.Services -> Descriptions] :
          /\ newSchema' =
                 Schema([i \in DOMAIN oldSchema.Services |->
                            [oldSchema.Services[i] EXCEPT !.Description = descriptions[i]]])
          /\ changelog' \in CompareSchemas(oldSchema, newSchema', clock)
    /\ clock' = clock + 1
    /\ pc' = "described"
    /\ UNCHANGED <<oldSchema, reversed, mergeVars, docsVars, sortVars, viewVars,
                 diagVars>>

NextDiff ==
    DoCompare \/ DoCompareSelf \/ DoCompareReversed \/ DoCompareDescribed

SpecDiff == InitDiff /\ [][NextDiff]_vars

(***************************************************************************)
(* Vocabulary of the diff claims.                                          *)
(***************************************************************************)
\* Number of changes of the changelog with this type, category and name.
Changes(type, category, name) ==
    Cardinality({i \in DOMAIN changelog.Changes :
                    /\ changelog.Changes[i].Type = type
                    /\ changelog.Changes[i].Category = category
                    /\ changelog.Changes[i].Name = name})

HasPrefix(str, prefix) ==
    Len(str) >= Len(prefix) /\ SubSeq(str, 1, Len(prefix)) = prefix

\* The service a schema holds under a name, and its operation under a key.
ServiceIn(schema, name) == ServiceMap(schema.Services)[name]

KeysIn(schema, name) ==
    {operationKey(op) : op \in Range(ServiceIn(schema, name).Operation)}

OpIn(schema, name, k) == OpMap(ServiceIn(schema, name).Operation)[k]

InBoth == NamesOf(oldSchema) \cap NamesOf(newSchema)

KeysInBoth(name) == KeysIn(oldSchema, name) \cap KeysIn(newSchema, name)

(***************************************************************************)
(* C5.  The diff of a schema against itself has no change.                 *)
(***************************************************************************)
C5_SelfDiffEmpty == pc = "self" => changelog.Changes = <<>>

\* A schema compared with itself that repeats a service name with other
\* operations and has a service with two different operations of one key.
C5_Witness ==
    /\ pc = "self"
    /\ oldSchema = newSchema
    /\ changelog.Changes = <<>>
    /\ \E i, j \in DOMAIN oldSchema.Services :
          /\ i # j
          /\ oldSchema.Services[i].Name = oldSchema.Services[j].Name
          /\ oldSchema.Services[i].Operation # oldSchema.Services[j].Operation
    /\ \E i \in DOMAIN oldSchema.Services :
          \E a, b \in DOMAIN oldSchema.Services[i].Operation :
             /\ oldSchema.Services[i].Operation[a] # oldSchema.Services[i].Operation[b]
             /\ operationKey(oldSchema.Services[i].Operation[a])
                    = operationKey(oldSchema.Services[i].Operation[b])

(***************************************************************************)
(* C6.  Every service name of the previous schema that the current one     *)
(* lacks yields exactly one removed/service change with that name, every   *)
(* service name only the current one has exactly one added/service         *)
(* change, and no channel or message change names such a service.          *)
(***************************************************************************)
NoOperationChange(name) ==
    \A i \in DOMAIN changelog.Changes :
        changelog.Changes[i].Category \in {"channel", "message"} =>
            ~HasPrefix(changelog.Changes[i].Name, name \o ":")

C6_ServiceCompleteness ==
    pc = "compared" =>
        /\ \A name \in NamesOf(oldSchema) \ NamesOf(newSchema) :
              /\ Changes(ChangeTypeRemoved, "service", name) = 1
              /\ NoOperationChange(name)
        /\ \A name \in NamesOf(newSchema) \ NamesOf(oldSchema) :
              /\ Changes(ChangeTypeAdded, "service", name) = 1
              /\ NoOperationChange(name)

\* A service with operations is removed, one that occurs twice, and a
\* service with operations is added.
C6_Witness ==
    /\ pc = "compared"
    /\ \E name \in NamesOf(oldSchema) \ NamesOf(newSchema) :
          /\ Len(OpsOf(oldSchema, name)) > 0
          /\ Len(oldSchema.Services) = 2
    /\ \E name \in NamesOf(newSchema) \ NamesOf(oldSchema) :
          Len(OpsOf(newSchema, name)) > 0
    /\ Len(changelog.Changes) = 2

(***************************************************************************)
(* C7.  In a service both schemas have, an operation key only the current  *)
(* service has yields exactly one added/channel change named               *)
(* "<service>:<key>", a key only the previous service has exactly one      *)
(* removed/channel change of that name, and a key on both sides neither.   *)
(***************************************************************************)
C7_OperationsMatchedByKey ==
    pc = "compared" =>
        \A name \in InBoth :
            /\ \A k \in KeysIn(newSchema, name) \ KeysIn(oldSchema, name) :
                  Changes(ChangeTypeAdded, "channel", name \o ":" \o k) = 1
            /\ \A k \in KeysIn(oldSchema, name) \ KeysIn(newSchema, name) :
                  Changes(ChangeTypeRemoved, "channel", name \o ":" \o k) = 1
            /\ \A k \in KeysInBoth(name) :
                  /\ Changes(ChangeTypeAdded, "channel", name \o ":" \o k) = 0
                  /\ Changes(ChangeTypeRemoved, "channel", name \o ":" \o k) = 0

\* A service of both schemas with a key on both sides and a key only the
\* current service has, and the one change for the latter.
C7_Witness ==
    /\ pc = "compared"
    /\ \E name \in InBoth :
          /\ KeysInBoth(name) # {}
          /\ \E k \in KeysIn(newSchema, name) \ KeysIn(oldSchema, name) :
                Changes(ChangeTypeAdded, "channel", name \o ":" \o k) = 1
          /\ Len(changelog.Changes) = 1

(***************************************************************************)
(* C8.  For an operation key both versions of a service have, there is     *)
(* exactly one changed/message change named "<service>:<key>" iff the      *)
(* primary Messages differ and, when both operations have a reply,         *)
(* exactly one named "<service>:<key>:reply" iff the reply Messages        *)
(* differ, each whatever the other.                                        *)
(***************************************************************************)
C8_MessageChanges ==
    pc = "compared" =>
        \A name \in InBoth : \A k \in KeysInBoth(name) :
            LET oldOp == OpIn(oldSchema, name, k)
                newOp == OpIn(newSchema, name, k)
            IN  /\ Changes(ChangeTypeChanged, "message", name \o ":" \o k)
                       = IF oldOp.Channel.Messages # newOp.Channel.Messages
                         THEN 1 ELSE 0
                /\ (oldOp.Reply # NoReply /\ newOp.Reply # NoReply) =>
                       Changes(ChangeTypeChanged, "message",
                               name \o ":" \o k \o ":reply")
                           = IF oldOp.Reply[1].Messages # newOp.Reply[1].Messages
                             THEN 1 ELSE 0

\* Both the primary and the reply messages of one key differ, and the
\* changelog holds the two changes.
C8_Witness ==
    /\ pc = "compared"
    /\ \E name \in InBoth : \E k \in KeysInBoth(name) :
          LET oldOp == OpIn(oldSchema, name, k)
              newOp == OpIn(newSchema, name, k)
          IN  /\ oldOp.Reply # NoReply
              /\ newOp.Reply # NoReply
              /\ oldOp.Channel.Messages # newOp.Channel.Messages
              /\ oldOp.Reply[1].Messages # newOp.Reply[1].Messages
              /\ Changes(ChangeTypeChanged, "message", name \o ":" \o k) = 1
              /\ Changes(ChangeTypeChanged, "message", name \o ":" \o k \o ":reply") = 1
              /\ Len(changelog.Changes) = 2

(***************************************************************************)
(* C9.  When an operation of a service of both schemas has the same        *)
(* action, primary channel and primary message name on both sides and a    *)
(* reply on one side only, the changelog holds a change named              *)
(* "<service>:<key>:reply", added/channel when the reply is new and        *)
(* removed/channel when it is gone.  Stated for services with that one     *)
(* operation, <key> being the key of either side.                          *)
(***************************************************************************)
SamePrimary(op1, op2) ==
    /\ op1.Action = op2.Action
    /\ op1.Channel.Name = op2.Channel.Name
    /\ Len(op1.Channel.Messages) > 0
    /\ Len(op2.Channel.Messages) > 0
    /\ op1.Channel.Messages[1].Name = op2.Channel.Messages[1].Name

C9_ReplyScopedChange ==
    pc = "compared" =>
        \A name \in InBoth :
            \A oldOp \in Range(ServiceIn(oldSchema, name).Operation) :
                \A newOp \in Range(ServiceIn(newSchema, name).Operation) :
                    (/\ SamePrimary(oldOp, newOp)
                     /\ Len(ServiceIn(oldSchema, name).Operation) = 1
                     /\ Len(ServiceIn(newSchema, name).Operation) = 1
                     /\ (oldOp.Reply = NoReply) # (newOp.Reply = NoReply)) =>
                        \E k \in {operationKey(oldOp), operationKey(newOp)} :
                            Changes(IF oldOp.Reply = NoReply
                                    THEN ChangeTypeAdded ELSE ChangeTypeRemoved,
                                    "channel", name \o ":" \o k \o ":reply") = 1

(***************************************************************************)
(* The metadata file: json.MarshalIndent and json.Unmarshal of Metadata.   *)
(* A JSON object is a record of the fields written; a field tagged         *)
(* omitempty is left out when it holds the zero value and reads back as    *)
(* the zero value.                                                         *)
(***************************************************************************)
MarshalMessage(m) == [name |-> m.Name, payload |-> m.Payload]

MarshalChannel(c) ==
    [name |-> c.Name,
     messages |-> [i \in DOMAIN c.Messages |-> MarshalMessage(c.Messages[i])]]

MarshalOperation(op) ==
    IF op.Reply = NoReply
    THEN [action |-> op.Action, channel |-> MarshalChannel(op.Channel)]
    ELSE [action |-> op.Action, channel |-> MarshalChannel(op.Channel),
          reply |-> MarshalChannel(op.Reply[1])]

MarshalService(svc) ==
    LET operations == [i \in DOMAIN svc.Operation |-> MarshalOperation(svc.Operation[i])]
    IN  IF svc.Description = ""
        THEN [name |-> svc.Name, operations |-> operations]
        ELSE [name |-> svc.Name, description |-> svc.Description,
              operations |-> operations]

MarshalSchema(schema) ==
    [services |-> [i \in DOMAIN schema.Services |-> MarshalService(schema.Services[i])]]

MarshalChange(c) ==
    IF c.Diff = <<>>
    THEN [type |-> c.Type, category |-> c.Category, name |-> c.Name,
          details |-> c.Details, timestamp |-> c.Timestamp]
    ELSE [type |-> c.Type, category |-> c.Category, name |-> c.Name,
          details |-> c.Details, diff |-> c.Diff, timestamp |-> c.Timestamp]

MarshalChangelog(cl) ==
    [date |-> cl.Date,
     changes |-> [i \in DOMAIN cl.Changes |-> MarshalChange(cl.Changes[i])]]

MarshalMetadata(md) ==
    [schema |-> MarshalSchema(md.Schema),
     changelogs |-> [i \in DOMAIN md.Changelogs |-> MarshalChangelog(md.Changelogs[i])]]

UnmarshalMessage(j) == Message(j.name, j.payload)

UnmarshalChannel(j) ==
    Channel(j.name, [i \in DOMAIN j.messages |-> UnmarshalMessage(j.messages[i])])

UnmarshalOperation(j) ==
    Operation(j.action, UnmarshalChannel(j.channel),
              IF "reply" \in DOMAIN j THEN <<UnmarshalChannel(j.reply)>> ELSE NoReply)

UnmarshalService(j) ==
    Service(j.name,
            IF "description" \in DOMAIN j THEN j.description ELSE "",
            [i \in DOMAIN j.operations |-> UnmarshalOperation(j.operations[i])])

UnmarshalSchema(j) ==
    Schema([i \in DOMAIN j.services |-> UnmarshalService(j.services[i])])

UnmarshalChange(j) ==
    Change(j.type, j.category, j.name, j.details,
           IF "diff" \in DOMAIN j THEN j.diff ELSE <<>>, j.timestamp)

UnmarshalChangelog(j) ==
    Changelog(j.date, [i \in DOMAIN j.changes |-> UnmarshalChange(j.changes[i])])

UnmarshalMetadata(j) ==
    Metadata(UnmarshalSchema(j.schema),
             [i \in DOMAIN j.changelogs |-> UnmarshalChangelog(j.changelogs[i])])

\* readMetadata that takes a missing file for one that holds the empty
\* schema and no history.
readMetadataEmptyWhenAbsent(f) ==
    IF f.state = "absent"
    THEN [metadata |-> <<Metadata(EmptySchema, <<>>)>>, failed |-> FALSE]
    ELSE IF f.state = "corrupt"
    THEN [metadata |-> <<>>, failed |-> TRUE]
    ELSE [metadata |-> <<UnmarshalMetadata(f.data[1])>>, failed |-> FALSE]

\* readMetadata: no metadata and no error when the file does not exist, an
\* error when it cannot be decoded, its Metadata otherwise.
readMetadata(f) ==
    IF f.state = "absent"
    THEN [metadata |-> <<>>, failed |-> FALSE]
    ELSE IF f.state = "corrupt"
    THEN [metadata |-> <<>>, failed |-> TRUE]
    ELSE [metadata |-> <<UnmarshalMetadata(f.data[1])>>, failed |-> FALSE]

\* writeMetadata that reports success and leaves the file for later.
writeMetadataLater(f, data) ==
    { [file |-> f, failed |-> FALSE] }

\* writeMetadata: the files os.WriteFile can leave.  It writes the document,
\* or fails before it opened the file, or fails after it truncated it.
writeMetadata(f, data) ==
    { [file |-> ValidFile(MarshalMetadata(data)), failed |-> FALSE],
      [file |-> f, failed |-> TRUE],
      [file |-> CorruptFile, failed |-> TRUE] }

(***************************************************************************)
(* Generate: processMetadata, generateDiagrams, createREADMEContent.       *)
(***************************************************************************)
\* updatedMetadata with the changelog appended whatever its length.
updatedMetadataAppendAlways(existingMetadata, schema, now) ==
    IF existingMetadata # <<>>
    THEN {Metadata(schema, Append(existingMetadata[1].Changelogs, cl)) :
             cl \in CompareSchemas(existingMetadata[1].Schema, schema, now)}
    ELSE {Metadata(schema, <<>>)}

\* The Metadata values processMetadata can build from what readMetadata
\* returned: the schema, and the history with the new Changelog appended
\* when it has a Change.
updatedMetadata(existingMetadata, schema, now) ==
    IF existingMetadata # <<>>
    THEN {Metadata(schema,
                   IF Len(cl.Changes) > 0
                   THEN Append(existingMetadata[1].Changelogs, cl)
                   ELSE existingMetadata[1].Changelogs) :
             cl \in CompareSchemas(existingMetadata[1].Schema, schema, now)}
    ELSE {Metadata(schema, <<>>)}

\* The schemas of the documentation runs: no service, one service, the same
\* with another payload, with another description, and with a second
\* service.
DocSchemas ==
    LET op(payload) ==
            Operation(ActionSend, Channel("c", <<Message("m", payload)>>), NoReply)
        recv == Operation(ActionReceive, Channel("c", <<>>), NoReply)
    IN  { Schema(<<>>),
          Schema(<<Service("A", "", <<op("p1")>>)>>),
          Schema(<<Service("A", "", <<op("p2")>>)>>),
          Schema(<<Service("A", "d", <<op("p1")>>)>>),
          Schema(<<Service("A", "", <<op("p1")>>), Service("B", "", <<recv>>)>>) }

InitDocs ==
    /\ pc = "idle"
    /\ clock = 1
    /\ file \in {AbsentFile, CorruptFile}
    /\ readme = <<>>
    /\ current = Metadata(EmptySchema, <<>>)
    /\ runs = 0
    /\ err = "nil"
    /\ NoSort
    /\ NoDiagrams
    /\ NoView
    /\ schemas = <<>>
    /\ merged = EmptySchema
    /\ again1 = EmptySchema
    /\ again2 = EmptySchema
    /\ swapped = EmptySchema
    /\ oldSchema = EmptySchema
    /\ newSchema = EmptySchema
    /\ changelog = Changelog(0, <<>>)
    /\ reversed = Changelog(0, <<>>)

\* Generate up to the return of processMetadata(schema, outputDir).
processMetadata ==
    /\ pc = "idle"
    /\ runs < MaxRuns
    /\ runs' = runs + 1
    /\ clock' = clock + 1
    /\ \E schema \in DocSchemas :
          LET existing == readMetadata(file)
          IN  IF existing.failed
              THEN /\ err' = "error processing metadata"
                   /\ pc' = "idle"
                   /\ current' = Metadata(schema, <<>>)
                   /\ UNCHANGED file
              ELSE \E metadata \in updatedMetadata(existing.metadata, schema, clock) :
                      \E written \in writeMetadata(file, metadata) :
                         /\ file' = written.file
                         /\ current' = metadata
                         /\ IF written.failed
                            THEN /\ err' = "error processing metadata"
                                 /\ pc' = "idle"
                            ELSE /\ err' = "nil"
                                 /\ pc' = "diagrams"
    /\ UNCHANGED <<readme, mergeVars, diffVars, sortVars, viewVars, diagVars>>

\* Generate from the call of generateDiagrams to its return: all diagrams
\* are written, or one of them fails.
generateDiagrams ==
    /\ pc = "diagrams"
    /\ \E failed \in BOOLEAN :
          IF failed
          THEN /\ err' = "error generating diagrams"
               /\ pc' = "idle"
          ELSE /\ err' = "nil"
               /\ pc' = "readme"
    /\ UNCHANGED <<clock, file, readme, current, runs,
                 mergeVars, diffVars, sortVars, viewVars, diagVars>>

\* Generate from the call of createREADMEContent to its return.
createREADMEContent ==
    /\ pc = "readme"
    /\ \E failed \in BOOLEAN :
          IF failed
          THEN /\ err' = "error creating README content"
               /\ UNCHANGED readme
          ELSE /\ err' = "nil"
               /\ readme' = <<current>>
    /\ pc' = "idle"
    /\ UNCHANGED <<clock, file, current, runs,
                 mergeVars, diffVars, sortVars, viewVars, diagVars>>

NextDocs == processMetadata \/ generateDiagrams \/ createREADMEContent

SpecDocs == InitDocs /\ [][NextDocs]_vars

(***************************************************************************)
(* C10.  The changelog history is append-only and skips empty diffs: a     *)
(* run that finds metadata and writes it leaves the history it found       *)
(* extended by the one Changelog of CompareSchemas(previous snapshot,      *)
(* schema) when that has a Change and as it was when it has none, and no   *)
(* step removes, reorders or alters the entries the file holds.            *)
(***************************************************************************)
History(f) == UnmarshalMetadata(f.data[1]).Changelogs

IsPrefix(s1, s2) == Len(s1) <= Len(s2) /\ SubSeq(s2, 1, Len(s1)) = s1

C10_Step ==
    /\ (file.state = "valid" /\ file'.state = "valid") =>
           IsPrefix(History(file), History(file'))
    /\ (file.state = "valid" /\ pc = "idle" /\ pc' = "diagrams") =>
           \E cl \in CompareSchemas(UnmarshalMetadata(file.data[1]).Schema,
                                    current'.Schema, clock) :
               History(file') = IF Len(cl.Changes) > 0
                                THEN Append(History(file), cl)
                                ELSE History(file)

C10_HistoryAppendOnly == [][C10_Step]_vars

\* After three runs the file holds the schema of the third and a history
\* of one Changelog, made by the second: the second run appended and the
\* third, which found the schema unchanged, did not.
C10_Witness ==
    /\ runs = 3
    /\ pc = "diagrams"
    /\ file.state = "valid"
    /\ Len(History(file)) = 1
    /\ History(file)[1].Date = 2
    /\ UnmarshalMetadata(file.data[1]).Schema = current.Schema

(***************************************************************************)
(* Strings as Go compares and splits them.                                 *)
(***************************************************************************)
\* The bytes the model's strings are made of, in ascending order.
Alphabet == " ->ABCDEFGHIJKLMNOPQRSTUVWXYZ_abcdefghijklmnopqrstuvwxyz"

Rank(c) == CHOOSE i \in 1..Len(Alphabet) : SubSeq(Alphabet, i, i) = c

\* a < b on Go strings: byte by byte, a proper prefix first.
RECURSIVE StringLess(_, _)
StringLess(a, b) ==
    IF Len(b) = 0
    THEN FALSE
    ELSE IF Len(a) = 0
    THEN TRUE
    ELSE LET ca == SubSeq(a, 1, 1)
             cb == SubSeq(b, 1, 1)
         IN  IF ca # cb
             THEN Rank(ca) < Rank(cb)
             ELSE StringLess(SubSeq(a, 2, Len(a)), SubSeq(b, 2, Len(b)))

\* sort.Strings on the keys of a map: the ascending sequence of the set.
SortStrings(S) ==
    CHOOSE keys \in Orders(S) :
        \A i, j \in DOMAIN keys : i < j => StringLess(keys[i], keys[j])

\* strings.Fields: the maximal runs of non-space bytes of str, word being
\* the run under way.
RECURSIVE FieldsFrom(_, _)
FieldsFrom(str, word) ==
    LET done == IF word = "" THEN <<>> ELSE <<word>>
    IN  IF Len(str) = 0
        THEN done
        ELSE IF SubSeq(str, 1, 1) = " "
        THEN done \o FieldsFrom(SubSeq(str, 2, Len(str)), "")
        ELSE FieldsFrom(SubSeq(str, 2, Len(str)), word \o SubSeq(str, 1, 1))

Fields(str) == FieldsFrom(str, "")

\* strings.Join
RECURSIVE Join(_, _)
Join(elems, sep) ==
    IF Len(elems) = 0
    THEN ""
    ELSE IF Len(elems) = 1
    THEN elems[1]
    ELSE elems[1] \o sep \o Join(Tail(elems), sep)

Min(a, b) == IF a < b THEN a ELSE b

(***************************************************************************)
(* The d2 target: FormatSchema and the payloads it prepares.               *)
(***************************************************************************)
FormatModeContextServices == "context_services"
FormatModeServiceChannels == "service_channels"
FormatModeChannelServices == "channel_services"
FormatModeServiceServices == "service_services"

targetType == "d2"

EmptyService == Service("", "", <<>>)

connection(from, to, label, bidirectional) ==
    [From |-> from, To |-> to, Label |-> label, Bidirectional |-> bidirectional]

contextServicesPayload(services, connections) ==
    [Services |-> services, Connections |-> connections]

\* A nil *string is the empty sequence, a non-nil one a sequence of length
\* one.
channelServicesPayload(channel, message, messageName, replyMessage, replyMessageName, senders, receivers, omitPayloads) ==
    [Channel |-> channel, Message |-> message, MessageName |-> messageName,
     ReplyMessage |-> replyMessage, ReplyMessageName |-> replyMessageName,
     Senders |-> senders, Receivers |-> receivers, OmitPayloads |-> omitPayloads]

serviceServicesPayload(mainService, neighborServices) ==
    [MainService |-> mainService, NeighborServices |-> neighborServices]

UnsupportedFormatModeError(given, expected) ==
    [error |-> "UnsupportedFormatModeError", given |-> given, expected |-> expected]

\* The lines of at most seven words formatDescription joins.
RECURSIVE Chunks(_)
Chunks(words) ==
    IF Len(words) = 0
    THEN <<>>
    ELSE LET end == Min(7, Len(words))
         IN  <<Join(SubSeq(words, 1, end), " ")>>
                 \o Chunks(SubSeq(words, end + 1, Len(words)))

formatDescription(desc) ==
    IF desc = ""
    THEN ""
    ELSE LET words == Fields(desc)
         IN  IF Len(words) <= 7 THEN desc ELSE Join(Chunks(words), "  \n")

findServiceByName(s, name) ==
    IF \E i \in DOMAIN s.Services : s.Services[i].Name = name
    THEN s.Services[CHOOSE i \in DOMAIN s.Services :
                        /\ s.Services[i].Name = name
                        /\ \A j \in DOMAIN s.Services :
                              s.Services[j].Name = name => i <= j]
    ELSE EmptyService

\* determineConnectionLabel that takes the reply of either operation of a
\* matching pair.
determineConnectionLabelEitherReply(s, service1, service2) ==
    LET svc1 == findServiceByName(s, service1)
        svc2 == findServiceByName(s, service2)
        pairs == {<<op1, op2>> \in Range(svc1.Operation) \X Range(svc2.Operation) :
                     /\ op1.Channel.Name = op2.Channel.Name
                     /\ \/ op1.Action = ActionSend /\ op2.Action = ActionReceive
                        \/ op1.Action = ActionReceive /\ op2.Action = ActionSend}
        hasReq == \E pr \in pairs : pr[1].Reply # NoReply \/ pr[2].Reply # NoReply
        hasPub == \E pr \in pairs : pr[1].Reply = NoReply /\ pr[2].Reply = NoReply
    IN  IF hasPub /\ hasReq THEN "Pub/Req" ELSE IF hasReq THEN "Req" ELSE "Pub"

\* hasPub and hasReq are only ever set, so the loops come to: some pair of
\* operations sets the flag.
determineConnectionLabel(s, service1, service2) ==
    LET svc1 == findServiceByName(s, service1)
        svc2 == findServiceByName(s, service2)
        sendReceive == {<<op1, op2>> \in Range(svc1.Operation) \X Range(svc2.Operation) :
                           /\ op1.Channel.Name = op2.Channel.Name
                           /\ op1.Action = ActionSend
                           /\ op2.Action = ActionReceive}
        receiveSend == {<<op1, op2>> \in Range(svc1.Operation) \X Range(svc2.Operation) :
                           /\ op1.Channel.Name = op2.Channel.Name
                           /\ op1.Action = ActionReceive
                           /\ op2.Action = ActionSend}
        hasReq == \/ \E pr \in sendReceive : pr[1].Reply # NoReply
                  \/ \E pr \in receiveSend : pr[2].Reply # NoReply
        hasPub == \/ \E pr \in sendReceive : pr[1].Reply = NoReply
                  \/ \E pr \in receiveSend : pr[2].Reply = NoReply
    IN  IF hasPub /\ hasReq THEN "Pub/Req" ELSE IF hasReq THEN "Req" ELSE "Pub"

\* First pass of prepareContextServicesPayload: servicePairs, the map from a
\* service name to the names of the other services that receive on a
\* channel it sends on.
servicePairs(s) ==
    LET receiversOf(name) ==
            {s.Services[j].Name : j \in
                {j \in DOMAIN s.Services :
                    /\ s.Services[j].Name # name
                    /\ \E i \in DOMAIN s.Services :
                          /\ s.Services[i].Name = name
                          /\ \E op \in Range(s.Services[i].Operation) :
                                /\ op.Action = ActionSend
                                /\ \E otherOp \in Range(s.Services[j].Operation) :
                                      /\ otherOp.Channel.Name = op.Channel.Name
                                      /\ otherOp.Action = ActionReceive}}
    IN  [name \in {n \in {s.Services[i].Name : i \in DOMAIN s.Services} :
                      receiversOf(n) # {}} |-> receiversOf(name)]

\* One iteration of the second pass: the key and the connection it writes
\* to connectionMap.
connectionOf(s, pairs, service1, service2) ==
    LET bidirectional == service2 \in DOMAIN pairs /\ service1 \in pairs[service2]
        swap == bidirectional /\ ~StringLess(service1, service2)
        from == IF swap THEN service2 ELSE service1
        to == IF swap THEN service1 ELSE service2
    IN  [key |-> from \o "->" \o to,
         conn |-> connection(from, to, determineConnectionLabel(s, from, to),
                             bidirectional)]

\* The map after "m[w.key] = w.conn" for each w of writes in order.
ConnectionMap(writes) ==
    [k \in {writes[i].key : i \in DOMAIN writes} |->
        LET last == CHOOSE i \in DOMAIN writes :
                        /\ writes[i].key = k
                        /\ \A j \in DOMAIN writes : writes[j].key = k => j <= i
        IN  writes[last].conn]

\* The payloads prepareContextServicesPayload(s) can return: both ranges of
\* the second pass visit their map in an order the runtime picks.
prepareContextServicesPayload(s) ==
    LET formattedServices ==
            [i \in DOMAIN s.Services |->
                Service(s.Services[i].Name,
                        formatDescription(s.Services[i].Description),
                        s.Services[i].Operation)]
        pairs == servicePairs(s)
        inner(service1) ==
            {[i \in DOMAIN ord |-> connectionOf(s, pairs, service1, ord[i])] :
                ord \in Orders(pairs[service1])}
        writes == RangeAppend([service1 \in DOMAIN pairs |-> inner(service1)])
    IN  {LET connectionMap == ConnectionMap(w)
             keys == SortStrings(DOMAIN connectionMap)
         IN  contextServicesPayload(formattedServices,
                                    [i \in DOMAIN keys |-> connectionMap[keys[i]]]) :
            w \in writes}

\* prepareServiceChannelsPayload without the default to the only service.
prepareServiceChannelsPayloadNoDefault(s, serviceName) ==
    findServiceByName(s, serviceName)

prepareServiceChannelsPayload(s, serviceName) ==
    IF serviceName = "" /\ Len(s.Services) = 1
    THEN s.Services[1]
    ELSE findServiceByName(s, serviceName)

\* The body of the loops of prepareChannelServicesPayload for operation op
\* of the service called name.
channelServicesStep(p, name, op) ==
    IF op.Channel.Name # p.Channel
    THEN p
    ELSE LET p1 == IF op.Action = ActionSend
                   THEN [p EXCEPT !.Senders = Append(@, name)]
                   ELSE IF op.Action = ActionReceive
                   THEN [p EXCEPT !.Receivers = Append(@, name)]
                   ELSE p
             p2 == IF /\ Len(op.Channel.Messages) > 0
                      /\ Len(p1.Message) < Len(op.Channel.Messages[1].Payload)
                   THEN [p1 EXCEPT !.Message = op.Channel.Messages[1].Payload,
                                   !.MessageName = op.Channel.Messages[1].Name]
                   ELSE p1
         IN  IF /\ op.Reply # NoReply
                /\ Len(op.Reply[1].Messages) > 0
                /\ \/ p2.ReplyMessage = <<>>
                   \/ Len(p2.ReplyMessage[1]) < Len(op.Reply[1].Messages[1].Payload)
             THEN [p2 EXCEPT !.ReplyMessage = <<op.Reply[1].Messages[1].Payload>>,
                             !.ReplyMessageName = <<op.Reply[1].Messages[1].Name>>]
             ELSE p2

RECURSIVE channelServicesOps(_, _, _)
channelServicesOps(p, name, ops) ==
    IF ops = <<>>
    THEN p
    ELSE channelServicesOps(channelServicesStep(p, name, Head(ops)), name, Tail(ops))

RECURSIVE channelServicesLoop(_, _)
channelServicesLoop(p, services) ==
    IF services = <<>>
    THEN p
    ELSE channelServicesLoop(
             channelServicesOps(p, Head(services).Name, Head(services).Operation),
             Tail(services))

prepareChannelServicesPayload(s, channel, omitPayloads) ==
    channelServicesLoop(
        channelServicesPayload(channel, "", "", <<>>, <<>>, <<>>, <<>>, omitPayloads),
        s.Services)

\* The service prepareServiceServicesPayload takes as mainService.
mainServiceOf(s, serviceName) ==
    IF serviceName = "" /\ Len(s.Services) = 1
    THEN s.Services[1]
    ELSE findServiceByName(s, serviceName)

\* Whether the second loop of prepareServiceServicesPayload sets isNeighbor
\* for service.
isNeighbor(mainService, service) ==
    LET mainServiceSendChannels ==
            {op.Channel.Name : op \in {o \in Range(mainService.Operation) :
                                          o.Action = ActionSend}}
        mainServiceReceiveChannels ==
            {op.Channel.Name : op \in {o \in Range(mainService.Operation) :
                                          o.Action = ActionReceive}}
    IN  \/ \E op \in Range(service.Operation) :
              op.Action = ActionSend /\ op.Channel.Name \in mainServiceReceiveChannels
        \/ \E op \in Range(service.Operation) :
              op.Action = ActionReceive /\ op.Channel.Name \in mainServiceSendChannels

\* neighborsLoop without "if service.Name == mainService.Name { continue }".
RECURSIVE neighborsLoopWithMain(_, _, _)
neighborsLoopWithMain(mainService, neighborServices, services) ==
    IF services = <<>>
    THEN neighborServices
    ELSE LET service == Head(services)
             seen == {neighborServices[i].Name : i \in DOMAIN neighborServices}
         IN  IF isNeighbor(mainService, service) /\ service.Name \notin seen
             THEN neighborsLoopWithMain(mainService,
                                        Append(neighborServices, service),
                                        Tail(services))
             ELSE neighborsLoopWithMain(mainService, neighborServices,
                                        Tail(services))

\* The second loop of prepareServiceServicesPayload; neighborServiceMap
\* holds the names of neighborServices.
RECURSIVE neighborsLoop(_, _, _)
neighborsLoop(mainService, neighborServices, services) ==
    IF services = <<>>
    THEN neighborServices
    ELSE LET service == Head(services)
             seen == {neighborServices[i].Name : i \in DOMAIN neighborServices}
         IN  IF /\ service.Name # mainService.Name
                /\ isNeighbor(mainService, service)
                /\ service.Name \notin seen
             THEN neighborsLoop(mainService, Append(neighborServices, service),
                                Tail(services))
             ELSE neighborsLoop(mainService, neighborServices, Tail(services))

prepareServiceServicesPayload(s, serviceName) ==
    LET mainService == mainServiceOf(s, serviceName)
    IN  serviceServicesPayload(mainService,
                               neighborsLoop(mainService, <<>>, s.Services))

\* template.Execute(&buf, payload): the text the template makes of the
\* payload, or an error.
Execute(template, data) ==
    {[text |-> <<[template |-> template, data |-> data]>>, failed |-> FALSE],
     [text |-> <<>>, failed |-> TRUE]}

\* What one case of the switch of FormatSchema ends in, for each payload in
\* payloads that the case can prepare.
formatCase(template, payloads, message) ==
    {IF run.failed
     THEN [payload |-> <<data>>, fs |-> FormattedSchema("", <<>>),
           err |-> <<[error |-> message]>>]
     ELSE [payload |-> <<data>>, fs |-> FormattedSchema(targetType, run.text),
           err |-> <<>>] :
        <<data, run>> \in UNION {{data} \X Execute(template, data) : data \in payloads}}

\* FormatSchema without the case of FormatModeServiceServices.
FormatSchemaNoServiceServices(s, o) ==
    IF o.Mode = FormatModeContextServices
    THEN formatCase("templates/context_services.tmpl",
                    prepareContextServicesPayload(s),
                    "executing context services template")
    ELSE IF o.Mode = FormatModeServiceChannels
    THEN formatCase("templates/service_channels.tmpl",
                    {prepareServiceChannelsPayload(s, o.Service)},
                    "executing service channels template")
    ELSE IF o.Mode = FormatModeChannelServices
    THEN formatCase("templates/channel_services.tmpl",
                    {prepareChannelServicesPayload(s, o.Channel, o.OmitPayloads)},
                    "executing channel services template")
    ELSE {[payload |-> <<>>, fs |-> FormattedSchema("", <<>>),
           err |-> <<UnsupportedFormatModeError(o.Mode,
                         <<FormatModeServiceChannels, FormatModeChannelServices,
                           FormatModeContextServices, FormatModeServiceServices>>)>>]}

\* The payload, FormattedSchema and error FormatSchema(ctx, s, o) can end
\* with.
FormatSchema(s, o) ==
    IF o.Mode = FormatModeContextServices
    THEN formatCase("templates/context_services.tmpl",
                    prepareContextServicesPayload(s),
                    "executing context services template")
    ELSE IF o.Mode = FormatModeServiceChannels
    THEN formatCase("templates/service_channels.tmpl",
                    {prepareServiceChannelsPayload(s, o.Service)},
                    "executing service channels template")
    ELSE IF o.Mode = FormatModeChannelServices
    THEN formatCase("templates/channel_services.tmpl",
                    {prepareChannelServicesPayload(s, o.Channel, o.OmitPayloads)},
                    "executing channel services template")
    ELSE IF o.Mode = FormatModeServiceServices
    THEN formatCase("templates/service_services.tmpl",
                    {prepareServiceServicesPayload(s, o.Service)},
                    "executing service services template")
    ELSE {[payload |-> <<>>, fs |-> FormattedSchema("", <<>>),
           err |-> <<UnsupportedFormatModeError(o.Mode,
                         <<FormatModeServiceChannels, FormatModeChannelServices,
                           FormatModeContextServices, FormatModeServiceServices>>)>>]}

(***************************************************************************)
(* Inputs of the view specification.                                       *)
(***************************************************************************)
MaxViewServices == 3
MaxViewOps == 3
MaxContextOps == 5

\* Name and description of the services.  The key of a connection from "A"
\* to "B->A" is the key of a connection from "A->B" to "A".
ViewHeaders ==
    { <<"A", "a b c d e f g h">>, <<"A->B", "">>, <<"B->A", "one two">> }

\* Operations of the context view, which looks at actions, channel names
\* and replies only.
ContextOps ==
    { Operation(ActionSend, Channel("x", <<Message("m", "p")>>), NoReply),
      Operation(ActionReceive, Channel("x", <<Message("m", "p")>>),
                <<Channel("r", <<Message("n", "p")>>)>>),
      Operation(ActionSend, Channel("y", <<Message("m", "p")>>),
                <<Channel("r", <<Message("n", "p")>>)>>),
      Operation(ActionReceive, Channel("y", <<Message("m", "p")>>), NoReply) }

\* Operations of the other views: channels with no, one and two messages,
\* payloads of several lengths, replies on "r" and an operation on "r".
ViewOps ==
    { Operation(ActionSend,
                Channel("x", <<Message("m", "p"), Message("n", "ppp")>>), NoReply),
      Operation(ActionSend, Channel("x", <<Message("k", "pp")>>),
                <<Channel("r", <<Message("u", ""), Message("v", "pp")>>)>>),
      Operation(ActionReceive, Channel("x", <<Message("m", "")>>),
                <<Channel("r", <<Message("w", "p")>>)>>),
      Operation(ActionReceive, Channel("r", <<>>), NoReply) }

\* The service names FormatSchema is asked for: none, and one that the
\* schema has or lacks.
ServiceArgs == {"", "A"}

ChannelArgs == {"x", "r"}

ViewOptions ==
    {FormatOptions(mode, service, "", FALSE) :
        mode \in {FormatModeServiceChannels, FormatModeServiceServices},
        service \in ServiceArgs}
    \cup {FormatOptions(FormatModeChannelServices, "", channel, omitPayloads) :
             channel \in ChannelArgs, omitPayloads \in BOOLEAN}
    \cup {FormatOptions(mode, "", "", FALSE) :
             mode \in {FormatModeContextServices, "sequence"}}

\* The schema whose service j has the header hdr[j] and the operations
\* ops[i] with owner[i] = j.
BuildViewSchema(hdr, ops, owner) ==
    Schema([j \in DOMAIN hdr |-> Service(hdr[j][1], hdr[j][2], Pick(ops, owner, j))])

\* viewSchema is a schema of at most MaxViewServices services with distinct
\* names and at most maxOps operations of pool.
ViewSchemaOf(pool, maxOps) ==
    \E n \in 0..MaxViewServices, k \in 0..maxOps :
        \E hdr \in [1..n -> ViewHeaders], ops \in [1..k -> pool],
           owner \in Monotone(k, n) :
            /\ \A i, j \in 1..n : i # j => hdr[i] # hdr[j]
            /\ viewSchema = BuildViewSchema(hdr, ops, owner)

\* FormatSchema was not called yet, and nothing else was.
ViewStart ==
    /\ pc = "view"
    /\ viewPayload = <<>>
    /\ contextPayload = <<>>
    /\ fs = FormattedSchema("", <<>>)
    /\ formatErr = <<>>
    /\ schemas = <<>>
    /\ merged = EmptySchema
    /\ again1 = EmptySchema
    /\ again2 = EmptySchema
    /\ swapped = EmptySchema
    /\ oldSchema = EmptySchema
    /\ newSchema = EmptySchema
    /\ changelog = Changelog(0, <<>>)
    /\ reversed = Changelog(0, <<>>)
    /\ clock = 1
    /\ NoDocs
    /\ NoSort
    /\ NoDiagrams

InitContext ==
    /\ ViewSchemaOf(ContextOps, MaxContextOps)
    /\ opts = FormatOptions(FormatModeContextServices, "", "", FALSE)
    /\ ViewStart

InitView ==
    /\ ViewSchemaOf(ViewOps, MaxViewOps)
    /\ opts \in ViewOptions
    /\ ViewStart

\* target.FormatSchema(ctx, schema, formatOpts)
DoFormatSchema ==
    /\ pc = "view"
    /\ \E out \in FormatSchema(viewSchema, opts) :
          /\ viewPayload' = out.payload
          /\ fs' = out.fs
          /\ formatErr' = out.err
    /\ pc' = "formatted"
    /\ UNCHANGED <<viewSchema, opts, contextPayload, clock,
                 mergeVars, diffVars, docsVars, sortVars, diagVars>>

NextView == DoFormatSchema

SpecContext == InitContext /\ [][NextView]_vars

SpecView == InitView /\ [][NextView]_vars

(***************************************************************************)
(* The views of one schema that generateDiagrams asks for: the neighbors   *)
(* of a service of the schema and the context view.                        *)
(***************************************************************************)
MaxCrossOps == 4

InitCross ==
    /\ ViewSchemaOf(ContextOps, MaxCrossOps)
    /\ \E name \in NamesOf(viewSchema) \cup {""} :
          opts = FormatOptions(FormatModeServiceServices, name, "", FALSE)
    /\ ViewStart

\* target.FormatSchema(ctx, schema, formatOpts) of generateContextDiagram.
DoFormatContext ==
    /\ pc = "formatted"
    /\ \E out \in FormatSchema(viewSchema,
                               FormatOptions(FormatModeContextServices, "", "", FALSE)) :
          contextPayload' = out.payload
    /\ pc' = "crossed"
    /\ UNCHANGED <<viewSchema, opts, viewPayload, fs, formatErr, clock,
                 mergeVars, diffVars, docsVars, sortVars, diagVars>>

NextCross == DoFormatSchema \/ DoFormatContext

SpecCross == InitCross /\ [][NextCross]_vars

(***************************************************************************)
(* Vocabulary of the view claims.                                          *)
(***************************************************************************)
\* FormatSchema has prepared the payload of the given mode.
Prepared(mode) == pc = "formatted" /\ opts.Mode = mode /\ viewPayload # <<>>

Connections == viewPayload[1].Connections

\* A service of schema s called name has an operation with this action on
\* the primary channel called channel.
HasOperation(s, name, action, channel) ==
    \E op \in Range(OpsOf(s, name)) : op.Action = action /\ op.Channel.Name = channel

ChannelNames(s) ==
    UNION {{op.Channel.Name : op \in Range(s.Services[i].Operation)} :
              i \in DOMAIN s.Services}

\* a sends on a channel that b receives on.
SendsTo(s, a, b) ==
    \E channel \in ChannelNames(s) :
        HasOperation(s, a, ActionSend, channel)
            /\ HasOperation(s, b, ActionReceive, channel)

\* The positions of conns that hold a connection between a and b.
Between(conns, a, b) ==
    {i \in DOMAIN conns :
        \/ conns[i].From = a /\ conns[i].To = b
        \/ conns[i].From = b /\ conns[i].To = a}

(***************************************************************************)
(* C11.  Connection existence in the context view: two services with       *)
(* different names have a connection between them exactly when one of      *)
(* them has a send operation and the other a receive operation on the      *)
(* same primary channel name, and no connection joins a service to         *)
(* itself.                                                                 *)
(***************************************************************************)
C11_ConnectionExistence ==
    Prepared(FormatModeContextServices) =>
        /\ \A a, b \in NamesOf(viewSchema) :
              a # b =>
                  (Between(Connections, a, b) # {}
                      <=> (SendsTo(viewSchema, a, b) \/ SendsTo(viewSchema, b, a)))
        /\ \A i \in DOMAIN Connections :
              /\ Connections[i].From # Connections[i].To
              /\ {Connections[i].From, Connections[i].To} \subseteq NamesOf(viewSchema)

(***************************************************************************)
(* C12.  Bidirectionality in the context view: when a sends on a channel   *)
(* b receives on and b sends on a channel a receives on, there is exactly  *)
(* one connection between a and b, it is marked bidirectional and its      *)
(* From is the smaller of the two names; a connection is marked            *)
(* bidirectional only if both directions exist, and a connection of one    *)
(* direction leads from the sender to the receiver.                        *)
(***************************************************************************)
C12_Bidirectional ==
    Prepared(FormatModeContextServices) =>
        /\ \A a, b \in NamesOf(viewSchema) :
              (a # b /\ SendsTo(viewSchema, a, b) /\ SendsTo(viewSchema, b, a)) =>
                  /\ Cardinality(Between(Connections, a, b)) = 1
                  /\ \A i \in Between(Connections, a, b) :
                        /\ Connections[i].Bidirectional
                        /\ Connections[i].From = (IF StringLess(a, b) THEN a ELSE b)
        /\ \A i \in DOMAIN Connections :
              LET conn == Connections[i]
              IN  /\ conn.Bidirectional =>
                        /\ SendsTo(viewSchema, conn.From, conn.To)
                        /\ SendsTo(viewSchema, conn.To, conn.From)
                  /\ ~conn.Bidirectional => SendsTo(viewSchema, conn.From, conn.To)

(***************************************************************************)
(* C13.  Connection label: every pair of operations, one of each end of a  *)
(* connection, on the same channel name with opposite actions counts as    *)
(* request/reply when its send operation carries a reply channel and as    *)
(* publish otherwise; the label is "Pub/Req" when both kinds occur         *)
(* between the two services, "Req" when only request/reply occurs and      *)
(* "Pub" otherwise.                                                        *)
(***************************************************************************)
\* The send operations of the matching pairs between a and b.
PairSends(s, a, b) ==
    {send \in Range(OpsOf(s, a)) \cup Range(OpsOf(s, b)) :
        /\ send.Action = ActionSend
        /\ \E from \in {a, b} : \E to \in {a, b} \ {from} :
              /\ send \in Range(OpsOf(s, from))
              /\ HasOperation(s, to, ActionReceive, send.Channel.Name)}

LabelOf(s, a, b) ==
    LET req == \E send \in PairSends(s, a, b) : send.Reply # NoReply
        pub == \E send \in PairSends(s, a, b) : send.Reply = NoReply
    IN  IF req /\ pub THEN "Pub/Req" ELSE IF req THEN "Req" ELSE "Pub"

C13_ConnectionLabel ==
    Prepared(FormatModeContextServices) =>
        \A i \in DOMAIN Connections :
            Connections[i].Label =
                LabelOf(viewSchema, Connections[i].From, Connections[i].To)

\* Two connections from one service: one labelled "Pub/Req", and one
\* labelled "Pub" although its receive operation has a reply channel.
C13_Witness ==
    /\ Prepared(FormatModeContextServices)
    /\ Len(Connections) = 2
    /\ Connections[1].From = Connections[2].From
    /\ \E i \in DOMAIN Connections : Connections[i].Label = "Pub/Req"
    /\ \E i \in DOMAIN Connections :
          /\ Connections[i].Label = "Pub"
          /\ \A op \in Range(OpsOf(viewSchema, Connections[i].To)) :
                op.Action = ActionReceive /\ op.Reply # NoReply

(***************************************************************************)
(* C14.  The connections of the context view are deduplicated and          *)
(* ordered: at most one connection for every two services, no two          *)
(* entries with the same From and To, the keys "From->To" strictly         *)
(* ascending, and the same list for every order of the services and of     *)
(* the operations of the schema.                                           *)
(***************************************************************************)
\* The schemas that hold the services of s, and each service its
\* operations, in some order.
Reorderings(s) ==
    {Schema(services) :
        services \in UNION {Concats([i \in DOMAIN perm |->
                                        {<<[perm[i] EXCEPT !.Operation = ops]>> :
                                            ops \in MapValues(perm[i].Operation)}]) :
                               perm \in MapValues(s.Services)}}

C14_ConnectionsCanonical ==
    Prepared(FormatModeContextServices) =>
        /\ \A a, b \in NamesOf(viewSchema) :
              Cardinality(Between(Connections, a, b)) <= 1
        /\ \A i, j \in DOMAIN Connections :
              i < j =>
                  /\ <<Connections[i].From, Connections[i].To>>
                         # <<Connections[j].From, Connections[j].To>>
                  /\ StringLess(Connections[i].From \o "->" \o Connections[i].To,
                                Connections[j].From \o "->" \o Connections[j].To)
        /\ \A s \in Reorderings(viewSchema) :
              \A other \in prepareContextServicesPayload(s) :
                  other.Connections = Connections

(***************************************************************************)
(* C15.  Membership in the channel-services view: Senders holds, once      *)
(* each, the names of the services that have a send operation whose        *)
(* primary or reply channel is the channel asked for, and Receivers        *)
(* likewise for receive operations; the two lists do not depend on the     *)
(* omit-payloads flag.                                                     *)
(***************************************************************************)
\* The names of the services of s with an operation of this action whose
\* primary or reply channel is called channel.
Participants(s, action, channel) ==
    {name \in NamesOf(s) :
        \E op \in Range(OpsOf(s, name)) :
            /\ op.Action = action
            /\ \/ op.Channel.Name = channel
               \/ op.Reply # NoReply /\ op.Reply[1].Name = channel}

\* seq lists the elements of S, each once.
ListsOnce(seq, S) == Range(seq) = S /\ Len(seq) = Cardinality(S)

C15_ChannelMembership ==
    Prepared(FormatModeChannelServices) =>
        LET p == viewPayload[1]
            flipped == prepareChannelServicesPayload(viewSchema, opts.Channel,
                                                     ~opts.OmitPayloads)
        IN  /\ ListsOnce(p.Senders,
                         Participants(viewSchema, ActionSend, opts.Channel))
            /\ ListsOnce(p.Receivers,
                         Participants(viewSchema, ActionReceive, opts.Channel))
            /\ flipped.Senders = p.Senders
            /\ flipped.Receivers = p.Receivers

(***************************************************************************)
(* C16.  Representative messages in the channel-services view: the         *)
(* primary message of the payload is a message with the longest payload    *)
(* among the primary messages of all operations on the channel, and the    *)
(* reply message is one with the longest payload among their reply         *)
(* messages.                                                               *)
(***************************************************************************)
\* The operations of s whose primary channel is called channel.
Matching(s, channel) ==
    {op \in UNION {Range(s.Services[i].Operation) : i \in DOMAIN s.Services} :
        op.Channel.Name = channel}

PrimaryMessages(s, channel) ==
    UNION {Range(op.Channel.Messages) : op \in Matching(s, channel)}

ReplyMessages(s, channel) ==
    UNION {Range(op.Reply[1].Messages) :
              op \in {o \in Matching(s, channel) : o.Reply # NoReply}}

\* The payload is that of one of msgs, the name is its name or was never
\* set, and none of msgs has a longer payload.
Longest(name, text, msgs) ==
    /\ \E m \in msgs : m.Payload = text /\ name \in {m.Name, ""}
    /\ \A other \in msgs : Len(other.Payload) <= Len(text)

C16_LongestPayload ==
    Prepared(FormatModeChannelServices) =>
        LET p == viewPayload[1]
            primary == PrimaryMessages(viewSchema, opts.Channel)
            reply == ReplyMessages(viewSchema, opts.Channel)
        IN  /\ primary # {} => Longest(p.MessageName, p.Message, primary)
            /\ reply # {} =>
                  /\ p.ReplyMessage # <<>>
                  /\ Longest(p.ReplyMessageName[1], p.ReplyMessage[1], reply)

(***************************************************************************)
(* C17.  Service-neighbors view: the neighbor list holds, in schema order  *)
(* and once each, exactly the services whose name differs from the main    *)
(* service's name and that receive on a channel the main service sends on  *)
(* or send on a channel the main service receives on; the main service is  *)
(* never in its own list, also when it sends and receives on one channel.  *)
(***************************************************************************)
\* Service other stands in the neighbor relation to service main.
NeighborOf(main, other) ==
    /\ other.Name # main.Name
    /\ \E op \in Range(main.Operation) : \E otherOp \in Range(other.Operation) :
          /\ op.Channel.Name = otherOp.Channel.Name
          /\ \/ op.Action = ActionSend /\ otherOp.Action = ActionReceive
             \/ op.Action = ActionReceive /\ otherOp.Action = ActionSend

\* seq1 is seq2 with some positions left out.
RECURSIVE IsSubsequence(_, _)
IsSubsequence(seq1, seq2) ==
    IF seq1 = <<>>
    THEN TRUE
    ELSE IF seq2 = <<>>
    THEN FALSE
    ELSE IF Head(seq1) = Head(seq2)
    THEN IsSubsequence(Tail(seq1), Tail(seq2))
    ELSE IsSubsequence(seq1, Tail(seq2))

C17_Neighbors ==
    Prepared(FormatModeServiceServices) =>
        LET main == viewPayload[1].MainService
            neighbors == viewPayload[1].NeighborServices
        IN  /\ Range(neighbors) =
                   {svc \in Range(viewSchema.Services) : NeighborOf(main, svc)}
            /\ IsSubsequence(neighbors, viewSchema.Services)
            /\ \A i, j \in DOMAIN neighbors : i # j => neighbors[i] # neighbors[j]
            /\ \A i \in DOMAIN neighbors : neighbors[i].Name # main.Name

\* The main service sends and receives on one channel, its only neighbor
\* stands before it in the schema and receives on that channel.
C17_Witness ==
    /\ Prepared(FormatModeServiceServices)
    /\ Len(viewSchema.Services) = 2
    /\ viewPayload[1].MainService = viewSchema.Services[2]
    /\ viewPayload[1].NeighborServices = <<viewSchema.Services[1]>>
    /\ \E channel \in ChannelNames(viewSchema) :
          /\ HasOperation(viewSchema, viewSchema.Services[2].Name, ActionSend, channel)
          /\ HasOperation(viewSchema, viewSchema.Services[2].Name, ActionReceive,
                          channel)
          /\ HasOperation(viewSchema, viewSchema.Services[1].Name, ActionReceive,
                          channel)

(***************************************************************************)
(* C18.  Service resolution is permissive in the service-channels and the  *)
(* service-neighbors view: an empty name with a schema of exactly one      *)
(* service resolves to that service, a name of a service to that service,  *)
(* and in every other case the view is prepared all the same, with an      *)
(* empty Service and, in the neighbors view, no neighbors; the call never  *)
(* fails for the name.                                                     *)
(***************************************************************************)
Resolved(s, name) ==
    IF name = "" /\ Len(s.Services) = 1
    THEN s.Services[1]
    ELSE IF name \in NamesOf(s)
    THEN CHOOSE svc \in Range(s.Services) : svc.Name = name
    ELSE Service("", "", <<>>)

TemplateErrors ==
    {"executing context services template", "executing service channels template",
     "executing channel services template", "executing service services template"}

C18_PermissiveResolution ==
    (pc = "formatted"
        /\ opts.Mode \in {FormatModeServiceChannels, FormatModeServiceServices}) =>
        LET main == Resolved(viewSchema, opts.Service)
        IN  /\ viewPayload # <<>>
            /\ \A e \in Range(formatErr) : e.error \in TemplateErrors
            /\ opts.Mode = FormatModeServiceChannels => viewPayload[1] = main
            /\ opts.Mode = FormatModeServiceServices =>
                  /\ viewPayload[1].MainService = main
                  /\ main = Service("", "", <<>>) =>
                        viewPayload[1].NeighborServices = <<>>

\* No name is given, the schema has two services that are neighbors of
\* each other, and FormatSchema returned the view of the empty Service.
C18_Witness ==
    /\ Prepared(FormatModeServiceServices)
    /\ opts.Service = ""
    /\ Len(viewSchema.Services) = 2
    /\ NeighborOf(viewSchema.Services[1], viewSchema.Services[2])
    /\ viewPayload[1] = serviceServicesPayload(Service("", "", <<>>), <<>>)
    /\ formatErr = <<>>
    /\ fs.Type = "d2"

(***************************************************************************)
(* C19.  FormatSchema called with a mode that is none of context_services, *)
(* service_channels, channel_services and service_services returns an      *)
(* UnsupportedFormatModeError that names the given mode and lists exactly  *)
(* these four modes, together with an empty FormattedSchema; for these     *)
(* four modes it never returns this error.                                 *)
(***************************************************************************)
ImplementedModes ==
    {"context_services", "service_channels", "channel_services", "service_services"}

C19_UnsupportedMode ==
    pc = "formatted" =>
        IF opts.Mode \in ImplementedModes
        THEN \A e \in Range(formatErr) : e.error # "UnsupportedFormatModeError"
        ELSE /\ Len(formatErr) = 1
             /\ formatErr[1].error = "UnsupportedFormatModeError"
             /\ formatErr[1].given = opts.Mode
             /\ ListsOnce(formatErr[1].expected, ImplementedModes)
             /\ fs = [Type |-> "", Data |-> <<>>]

\* FormatSchema was asked for the mode "sequence" on a schema with
\* services and refused it.
C19_Witness ==
    /\ pc = "formatted"
    /\ opts.Mode = "sequence"
    /\ viewSchema.Services # <<>>
    /\ formatErr # <<>>
    /\ formatErr[1].given = "sequence"
    /\ viewPayload = <<>>
    /\ contextPayload = <<>>

(***************************************************************************)
(* Schema.Sort, as Load calls it on the merged schema.                     *)
(***************************************************************************)
\* The less function Sort hands to sort.Slice for the operations.
lessOperation(op1, op2) ==
    IF op1.Action # op2.Action
    THEN StringLess(op1.Action, op2.Action)
    ELSE IF op1.Channel.Name # op2.Channel.Name
    THEN StringLess(op1.Channel.Name, op2.Channel.Name)
    ELSE IF Len(op1.Channel.Messages) > 0 /\ Len(op2.Channel.Messages) > 0
    THEN StringLess(op1.Channel.Messages[1].Name, op2.Channel.Messages[1].Name)
    ELSE Len(op1.Channel.Messages) > Len(op2.Channel.Messages)

\* sort.Slice sorts a slice of at most twelve elements by insertion: every
\* element moves left past the elements it is less than, so elements that
\* less does not order keep their order.
RECURSIVE insertOperation(_, _)
insertOperation(ops, op) ==
    IF ops # <<>> /\ lessOperation(op, ops[Len(ops)])
    THEN Append(insertOperation(SubSeq(ops, 1, Len(ops) - 1), op), ops[Len(ops)])
    ELSE Append(ops, op)

RECURSIVE sortOperations(_, _)
sortOperations(done, ops) ==
    IF ops = <<>>
    THEN done
    ELSE sortOperations(insertOperation(done, Head(ops)), Tail(ops))

RECURSIVE insertService(_, _)
insertService(services, service) ==
    IF services # <<>> /\ StringLess(service.Name, services[Len(services)].Name)
    THEN Append(insertService(SubSeq(services, 1, Len(services) - 1), service),
                services[Len(services)])
    ELSE Append(services, service)

RECURSIVE sortServices(_, _)
sortServices(done, services) ==
    IF services = <<>>
    THEN done
    ELSE sortServices(insertService(done, Head(services)), Tail(services))

\* The schema s.Sort() leaves in s.
Sort(s) ==
    Schema(sortServices(<<>>,
               [i \in DOMAIN s.Services |->
                   [s.Services[i] EXCEPT
                       !.Operation = sortOperations(<<>>, s.Services[i].Operation)]]))

(***************************************************************************)
(* Inputs of the sort specification.                                       *)
(***************************************************************************)
MaxSortSchemas == 2
MaxSortServices == 2
MaxSortOps == 3

\* Operations that differ in the action, in the channel name, in the name
\* of the first message, in having messages, and in the reply alone.
SortOps ==
    { Operation(ActionSend, Channel("c", <<Message("m", "p1")>>), NoReply),
      Operation(ActionSend, Channel("c", <<Message("m", "p1")>>),
                <<Channel("r", <<Message("n", "p1")>>)>>),
      Operation(ActionSend, Channel("c", <<>>), NoReply),
      Operation(ActionSend, Channel("b", <<Message("n", "p1")>>), NoReply),
      Operation(ActionReceive, Channel("c", <<Message("k", "p1")>>), NoReply) }

InitSort ==
    /\ pc = "start"
    /\ \E n \in 0..MaxSortSchemas, s \in 0..MaxSortServices, k \in 0..MaxSortOps :
         \E hdr \in [1..s -> ServiceNames \X {""}], where \in Monotone(s, n),
            ops \in [1..k -> SortOps], owner \in Monotone(k, s) :
              schemas = BuildSchemas(n, hdr, where, ops, owner)
    /\ merged = EmptySchema
    /\ again1 = EmptySchema
    /\ again2 = EmptySchema
    /\ swapped = EmptySchema
    /\ oldSchema = EmptySchema
    /\ newSchema = EmptySchema
    /\ changelog = Changelog(0, <<>>)
    /\ reversed = Changelog(0, <<>>)
    /\ clock = 1
    /\ NoDocs
    /\ NoSort
    /\ NoDiagrams
    /\ NoView

\* mergedSchema.Sort() in Load, and next to it a second call of Load on the
\* same schemas.
DoSort ==
    /\ pc = "merged"
    /\ sorted' = Sort(merged)
    /\ remerged' \in MergeSchemas(schemas)
    /\ resorted' = Sort(remerged')
    /\ pc' = "sorted"
    /\ UNCHANGED <<clock, mergeVars, diffVars, docsVars, viewVars, diagVars>>

NextSort == DoMerge \/ DoSort

SpecSort == InitSort /\ [][NextSort]_vars

(***************************************************************************)
(* C20.  Sort makes the output deterministic: two schemas that hold the    *)
(* same services with the same operations in different orders, such as     *)
(* two results of MergeSchemas over the same inputs, are the same schema   *)
(* after Sort; the services end in ascending order of their names and the  *)
(* operations of every service in ascending order of action, channel name  *)
(* and first message name, operations without messages last.               *)
(***************************************************************************)
\* No element of seq is less than an element before it.
Ascending(seq, less) ==
    \A i, j \in DOMAIN seq : i < j => ~less[<<seq[j], seq[i]>>]

OperationOrder(ops) ==
    [pair \in Range(ops) \X Range(ops) |-> lessOperation(pair[1], pair[2])]

ServiceOrder(services) ==
    [pair \in Range(services) \X Range(services) |->
        StringLess(pair[1].Name, pair[2].Name)]

C20_SortDeterministic ==
    pc = "sorted" =>
        /\ SameServices(merged, remerged) => sorted = resorted
        /\ Ascending(sorted.Services, ServiceOrder(sorted.Services))
        /\ \A i \in DOMAIN sorted.Services :
              Ascending(sorted.Services[i].Operation,
                        OperationOrder(sorted.Services[i].Operation))

(***************************************************************************)
(* C24.  Service names are unique in every merged schema: for any list of  *)
(* inputs, also when one input repeats a service name, no two services of  *)
(* the result of MergeSchemas have the same name, and the result has       *)
(* exactly one service per distinct service name of the inputs.            *)
(***************************************************************************)
C24_UniqueServiceNames ==
    Merged =>
        /\ \A i, j \in DOMAIN merged.Services :
              merged.Services[i].Name = merged.Services[j].Name => i = j
        /\ \A name \in InputNames :
              Cardinality({i \in DOMAIN merged.Services :
                              merged.Services[i].Name = name}) = 1
        /\ Len(merged.Services) = Cardinality(InputNames)

\* One input names a service twice with a service of another name between
\* the two, and the result has the two names once each.
C24_Witness ==
    /\ pc = "merged"
    /\ \E n \in DOMAIN schemas :
          /\ Len(schemas[n].Services) = 3
          /\ schemas[n].Services[1].Name = schemas[n].Services[3].Name
          /\ schemas[n].Services[1].Name # schemas[n].Services[2].Name
    /\ Len(merged.Services) = 2

(***************************************************************************)
(* C27.  Diff duality: for schemas A and B with unique service names and   *)
(* unique operation keys inside each service, CompareSchemas(A, B) holds   *)
(* an added change of a category and name iff CompareSchemas(B, A) holds   *)
(* a removed change of that category and name, and the other way round;    *)
(* it holds a changed/message change of a name iff CompareSchemas(B, A)    *)
(* does; and both changelogs have the same number of changes.              *)
(***************************************************************************)
\* cl has a change of this type, category and name.
Holds(cl, type, category, name) ==
    \E i \in DOMAIN cl.Changes :
        /\ cl.Changes[i].Type = type
        /\ cl.Changes[i].Category = category
        /\ cl.Changes[i].Name = name

\* No two services of schema share a name and no two operations of one
\* service share a key.
UniqueNamesAndKeys(schema) ==
    /\ \A i, j \in DOMAIN schema.Services :
          schema.Services[i].Name = schema.Services[j].Name => i = j
    /\ \A i \in DOMAIN schema.Services :
          \A a, b \in DOMAIN schema.Services[i].Operation :
             operationKey(schema.Services[i].Operation[a])
                 = operationKey(schema.Services[i].Operation[b]) => a = b

ChangeNames(cl) == {cl.Changes[i].Name : i \in DOMAIN cl.Changes}

C27_DiffDuality ==
    (/\ pc = "reversed"
     /\ UniqueNamesAndKeys(oldSchema)
     /\ UniqueNamesAndKeys(newSchema)) =>
        /\ \A category \in {"service", "channel", "message"} :
              \A name \in ChangeNames(changelog) \cup ChangeNames(reversed) :
                 /\ Holds(changelog, ChangeTypeAdded, category, name)
                        <=> Holds(reversed, ChangeTypeRemoved, category, name)
                 /\ Holds(changelog, ChangeTypeRemoved, category, name)
                        <=> Holds(reversed, ChangeTypeAdded, category, name)
        /\ \A name \in ChangeNames(changelog) \cup ChangeNames(reversed) :
              Holds(changelog, ChangeTypeChanged, "message", name)
                  <=> Holds(reversed, ChangeTypeChanged, "message", name)
        /\ Len(changelog.Changes) = Len(reversed.Changes)

\* One diff holds an added service, a removed operation and a change of
\* messages, the other the removed service and the added operation.
C27_Witness ==
    /\ pc = "reversed"
    /\ UniqueNamesAndKeys(oldSchema)
    /\ UniqueNamesAndKeys(newSchema)
    /\ \E name \in ChangeNames(changelog) :
          /\ Holds(changelog, ChangeTypeAdded, "service", name)
          /\ Holds(reversed, ChangeTypeRemoved, "service", name)
    /\ \E name \in ChangeNames(changelog) :
          /\ Holds(changelog, ChangeTypeRemoved, "channel", name)
          /\ Holds(reversed, ChangeTypeAdded, "channel", name)
    /\ \E name \in ChangeNames(changelog) :
          Holds(changelog, ChangeTypeChanged, "message", name)
    /\ Len(changelog.Changes) = 3

(***************************************************************************)
(* C28.  CompareSchemas ignores service descriptions: when two schemas     *)
(* have the same service names and under every name the same operations,   *)
(* and differ in service descriptions only, the changelog has no Change.   *)
(***************************************************************************)
\* The schema without its service descriptions.
Undescribed(schema) ==
    Schema([i \in DOMAIN schema.Services |->
               [schema.Services[i] EXCEPT !.Description = ""]])

C28_DescriptionsIgnored ==
    (/\ pc \in {"described", "compared"}
     /\ Undescribed(oldSchema) = Undescribed(newSchema)) =>
        changelog.Changes = <<>>

\* Two services with operations, both described anew, and no Change.
C28_Witness ==
    /\ pc = "described"
    /\ Len(oldSchema.Services) = 2
    /\ \A i \in DOMAIN oldSchema.Services :
          /\ oldSchema.Services[i].Operation # <<>>
          /\ oldSchema.Services[i].Description # newSchema.Services[i].Description
    /\ oldSchema.Services[1].Name # oldSchema.Services[2].Name
    /\ changelog.Changes = <<>>

(***************************************************************************)
(* C25.  Cross-view consistency: for a schema with unique service names    *)
(* and a service A of it, a service B is in the neighbors list of A iff    *)
(* the context view of the schema has a connection whose two endpoints     *)
(* are A and B, in either direction.                                       *)
(***************************************************************************)
NeighborNames ==
    {viewPayload[1].NeighborServices[i].Name :
        i \in DOMAIN viewPayload[1].NeighborServices}

\* The context view has a connection between a and b.
Connected(a, b) ==
    \E i \in DOMAIN contextPayload[1].Connections :
        LET c == contextPayload[1].Connections[i]
        IN  (c.From = a /\ c.To = b) \/ (c.From = b /\ c.To = a)

C25_CrossViewConsistency ==
    (/\ pc = "crossed"
     /\ opts.Service \in NamesOf(viewSchema)) =>
        \A b \in NamesOf(viewSchema) :
            b \in NeighborNames <=> Connected(opts.Service, b)

(***************************************************************************)
(* C26.  The label looks at the sending side only: a matching pair of a    *)
(* send and a receive operation on one channel counts as request/reply     *)
(* iff the send operation has a reply channel, whatever the receive        *)
(* operation has; so a connection is labelled "Req" or "Pub/Req" iff some  *)
(* send operation of its matching pairs has a reply, and one whose         *)
(* senders declare no reply is labelled "Pub".                             *)
(***************************************************************************)
\* The receive operations of the matching pairs between a and b.
PairReceives(s, a, b) ==
    {receive \in Range(OpsOf(s, a)) \cup Range(OpsOf(s, b)) :
        /\ receive.Action = ActionReceive
        /\ \E send \in PairSends(s, a, b) : send.Channel.Name = receive.Channel.Name}

C26_SendingSideOnly ==
    Prepared(FormatModeContextServices) =>
        \A i \in DOMAIN Connections :
            LET conn == Connections[i]
                sends == PairSends(viewSchema, conn.From, conn.To)
            IN  /\ conn.Label \in {"Req", "Pub/Req"}
                       <=> \E send \in sends : send.Reply # NoReply
                /\ (\A send \in sends : send.Reply = NoReply) => conn.Label = "Pub"

\* One connection, both ways: every receive operation of its pairs has a
\* reply channel, no send operation has one, and the label is "Pub".
C26_Witness ==
    /\ Prepared(FormatModeContextServices)
    /\ Len(Connections) = 1
    /\ Connections[1].Bidirectional
    /\ Connections[1].Label = "Pub"
    /\ LET a == Connections[1].From
           b == Connections[1].To
       IN  /\ \A receive \in PairReceives(viewSchema, a, b) : receive.Reply # NoReply
           /\ \A send \in PairSends(viewSchema, a, b) : send.Reply = NoReply
           /\ Cardinality(PairReceives(viewSchema, a, b)) = 1
           /\ Len(OpsOf(viewSchema, a)) = 2
           /\ Len(OpsOf(viewSchema, b)) = 2

(***************************************************************************)
(* C29.  Over any sequence of documentation runs on one output directory:  *)
(* the first run, which finds no metadata file, persists its schema with   *)
(* an empty history and computes no diff; after every run whose metadata   *)
(* write succeeds the persisted snapshot is that run's schema, also when   *)
(* the diff was empty; a run whose schema has the same services and        *)
(* operations as the schema of the run before it leaves the length of the  *)
(* history unchanged; and the history never has more entries than the      *)
(* number of runs minus one.                                               *)
(***************************************************************************)
Snapshot(f) == UnmarshalMetadata(f.data[1]).Schema

\* The step is a call of processMetadata, and one that wrote the metadata.
RunStep == runs' = runs + 1

WroteMetadata == RunStep /\ pc' = "diagrams"

\* The same service names and under every name the same operations.
SameOperations(s1, s2) == Undescribed(s1) = Undescribed(s2)

\* What the claim says of the first run, of the snapshot and of the bound.
C29_Persisted ==
    /\ (WroteMetadata /\ file.state = "absent") =>
           /\ file'.state = "valid"
           /\ Snapshot(file') = current'.Schema
           /\ History(file') = <<>>
    /\ WroteMetadata =>
           /\ file'.state = "valid"
           /\ Snapshot(file') = current'.Schema
    /\ file'.state = "valid" => runs' >= 1 /\ Len(History(file')) <= runs' - 1

C29_StepAsStated ==
    /\ C29_Persisted
    /\ (/\ RunStep
        /\ runs >= 1
        /\ file.state = "valid"
        /\ file'.state = "valid"
        /\ SameOperations(current.Schema, current'.Schema)) =>
           Len(History(file')) = Len(History(file))

C29_RunsAsStated == [][C29_StepAsStated]_vars

(***************************************************************************)
(* C29, amended.  As above, with the third part read against the persisted *)
(* snapshot, which is the schema of the last run whose metadata write      *)
(* succeeded: a run whose schema has the same services and operations as   *)
(* the snapshot it finds leaves the history as it was.                     *)
(***************************************************************************)
C29_Step ==
    /\ C29_Persisted
    /\ (/\ RunStep
        /\ file.state = "valid"
        /\ file'.state = "valid"
        /\ SameOperations(Snapshot(file), current'.Schema)) =>
           History(file') = History(file)

C29_Runs == [][C29_Step]_vars

\* Three runs wrote the metadata: the history has two entries, as many as
\* it can have, the second made by the third run.
C29_Witness ==
    /\ runs = 3
    /\ pc = "diagrams"
    /\ file.state = "valid"
    /\ Len(History(file)) = 2
    /\ History(file)[2].Date = 3
    /\ Snapshot(file) = current.Schema

(***************************************************************************)
(* C30.  Metadata is persisted before any diagram is produced: when        *)
(* generateDiagrams starts, the file holds the schema of the run as its    *)
(* snapshot and the history with the changelog of the run; a failure of    *)
(* generateDiagrams leaves both and README.md as they were and makes       *)
(* Generate return an error; and the next run, when it has the same        *)
(* schema and writes the metadata, appends no changelog.                   *)
(***************************************************************************)
DiagramsFailed == pc = "diagrams" /\ pc' = "idle"

C30_Step ==
    /\ pc' = "diagrams" =>
           /\ file'.state = "valid"
           /\ Snapshot(file') = current'.Schema
           /\ History(file') = current'.Changelogs
    /\ DiagramsFailed =>
           /\ err' = "error generating diagrams"
           /\ file' = file
           /\ readme' = readme
    /\ (/\ err = "error generating diagrams"
        /\ WroteMetadata
        /\ current'.Schema = current.Schema) =>
           History(file') = History(file)

C30_PersistedBeforeDiagrams == [][C30_Step]_vars

\* The second run found other services, wrote their changelog and then
\* failed in generateDiagrams: the file holds its schema and its changelog
\* and README.md is the one of the first run.
C30_Witness ==
    /\ runs = 2
    /\ pc = "idle"
    /\ err = "error generating diagrams"
    /\ file.state = "valid"
    /\ Snapshot(file) = current.Schema
    /\ Len(History(file)) = 1
    /\ History(file)[1].Date = 2
    /\ readme # <<>>
    /\ readme[1].Schema # current.Schema
    /\ readme[1].Changelogs = <<>>

(***************************************************************************)
(* generateDiagrams: the diagrams directory, and the errgroup with one     *)
(* function per view.                                                      *)
(***************************************************************************)
UpperCase == "ABCDEFGHIJKLMNOPQRSTUVWXYZ"

LowerCase == "abcdefghijklmnopqrstuvwxyz"

\* What sanitizeAnchor makes of one byte: strings.ToLower, then " " to "-",
\* then ".", "_", "{" and "}" to nothing.
sanitizeByte(c) ==
    LET lower == IF \E i \in 1..Len(UpperCase) : SubSeq(UpperCase, i, i) = c
                 THEN LET i == CHOOSE i \in 1..Len(UpperCase) : SubSeq(UpperCase, i, i) = c
                      IN  SubSeq(LowerCase, i, i)
                 ELSE c
    IN  IF lower = " "
        THEN "-"
        ELSE IF lower \in {".", "_", "{", "}"}
        THEN ""
        ELSE lower

RECURSIVE sanitizeAnchor(_)
sanitizeAnchor(name) ==
    IF Len(name) = 0
    THEN ""
    ELSE sanitizeByte(SubSeq(name, 1, 1)) \o sanitizeAnchor(SubSeq(name, 2, Len(name)))

\* The names of the channels and reply channels of the schema, ascending.
extractUniqueChannels(schema) ==
    SortStrings(UNION {UNION {{op.Channel.Name}
                                 \cup {op.Reply[i].Name : i \in DOMAIN op.Reply} :
                                     op \in Range(schema.Services[j].Operation)} :
                          j \in DOMAIN schema.Services})

\* A function handed to g.Go: the view it makes, and how far it has come.
unit(mode, name) == [Mode |-> mode, Name |-> name, at |-> "ready", err |-> <<>>]

\* The functions generateDiagrams hands to g.Go, in order.
unitsOf(schema) ==
    LET channels == extractUniqueChannels(schema)
    IN  <<unit(FormatModeContextServices, "")>>
            \o [i \in DOMAIN schema.Services |->
                   unit(FormatModeServiceServices, schema.Services[i].Name)]
            \o [i \in DOMAIN channels |-> unit(FormatModeChannelServices, channels[i])]

\* The formatOpts of the unit.
formatOptsOf(u) ==
    IF u.Mode = FormatModeContextServices
    THEN FormatOptions(FormatModeContextServices, "", "", FALSE)
    ELSE IF u.Mode = FormatModeServiceServices
    THEN FormatOptions(FormatModeServiceServices, u.Name, "", FALSE)
    ELSE FormatOptions(FormatModeChannelServices, "", u.Name, TRUE)

\* The file the unit writes.
pathOf(u) ==
    IF u.Mode = FormatModeContextServices
    THEN "diagrams/context.svg"
    ELSE IF u.Mode = FormatModeServiceServices
    THEN "diagrams/service_" \o sanitizeAnchor(u.Name) \o ".svg"
    ELSE "diagrams/channel_" \o sanitizeAnchor(u.Name) \o ".svg"

\* The error a unit returns from the given call.
unitError(u, call) == [Mode |-> u.Mode, Name |-> u.Name, call |-> call]

\* What g.Go keeps of the error a function returned: the first one.
errOnceLast(kept, e) == <<e>>

errOnce(kept, e) == IF kept = <<>> THEN <<e>> ELSE kept

\* A file of the diagrams directory.
diagramFile(path, mode, name) == [path |-> path, mode |-> mode, name |-> name]

\* The directory after os.WriteFile(path, ...) put there what f holds.
writeFile(dir, f) == {g \in dir : g.path # f.path} \cup {f}

\* The schemas diagrams are generated for: no service; one service with a
\* reply channel; two services whose names differ in the case of a letter;
\* and a service with two channels whose names differ in an underscore.
DiagramSchemas ==
    LET send(channel) ==
            Operation(ActionSend, Channel(channel, <<Message("m", "p")>>), NoReply)
        receive(channel) ==
            Operation(ActionReceive, Channel(channel, <<Message("m", "p")>>), NoReply)
        request == Operation(ActionSend, Channel("x", <<Message("m", "p")>>),
                             <<Channel("r", <<Message("n", "p")>>)>>)
    IN  { Schema(<<>>),
          Schema(<<Service("A", "", <<request>>)>>),
          Schema(<<Service("A", "", <<send("x")>>), Service("a", "", <<receive("x")>>)>>),
          Schema(<<Service("A", "", <<send("x_y"), receive("xy")>>)>>) }

\* Generate has written the metadata of the schema and is about to call
\* generateDiagrams; the directory holds a diagram of an earlier run.
InitDiagrams ==
    /\ pc = "diagrams"
    /\ clock = 1
    /\ \E schema \in DiagramSchemas :
          /\ current = Metadata(schema, <<>>)
          /\ file = ValidFile(MarshalMetadata(current))
    /\ readme = <<>>
    /\ runs = 1
    /\ err = "nil"
    /\ units = <<>>
    /\ cancelled = FALSE
    /\ groupErr = <<>>
    /\ diagramsErr = <<>>
    /\ diagrams = {diagramFile("diagrams/service_old.svg", FormatModeServiceServices, "old")}
    /\ NoSort
    /\ NoView
    /\ schemas = <<>>
    /\ merged = EmptySchema
    /\ again1 = EmptySchema
    /\ again2 = EmptySchema
    /\ swapped = EmptySchema
    /\ oldSchema = EmptySchema
    /\ newSchema = EmptySchema
    /\ changelog = Changelog(0, <<>>)
    /\ reversed = Changelog(0, <<>>)

\* os.RemoveAll(diagramsDir) and os.MkdirAll(diagramsDir, 0755).
prepareDiagramsDir ==
    /\ pc = "diagrams"
    /\ \E outcome \in {"ok", "error removing old diagrams directory",
                       "error creating diagrams directory"} :
          /\ diagrams' \in IF outcome = "error removing old diagrams directory"
                           THEN {diagrams, {}}
                           ELSE {{}}
          /\ IF outcome = "ok"
             THEN /\ pc' = "go"
                  /\ UNCHANGED <<err, diagramsErr>>
             ELSE /\ pc' = "idle"
                  /\ diagramsErr' = <<outcome>>
                  /\ err' = "error generating diagrams"
    /\ UNCHANGED <<clock, file, readme, current, runs, units, cancelled, groupErr,
                   mergeVars, diffVars, sortVars, viewVars>>

\* The next g.Go(...) of generateDiagrams.
Go ==
    /\ pc = "go"
    /\ Len(units) < Len(unitsOf(current.Schema))
    /\ units' = Append(units, unitsOf(current.Schema)[Len(units) + 1])
    /\ UNCHANGED <<pc, clock, docsVars, cancelled, groupErr, diagramsErr, diagrams,
                   mergeVars, diffVars, sortVars, viewVars>>

\* Unit i returns the error of the given call: g.Go keeps the first error
\* and cancels the context.
returnError(i, call) ==
    /\ units' = [units EXCEPT ![i].at = "failed",
                              ![i].err = <<unitError(units[i], call)>>]
    /\ groupErr' = errOnce(groupErr, unitError(units[i], call))
    /\ cancelled' = TRUE

\* target.FormatSchema(ctx, schema, formatOpts) of a unit.
unitFormat ==
    /\ pc = "go"
    /\ \E i \in DOMAIN units :
          /\ units[i].at = "ready"
          /\ \E out \in FormatSchema(current.Schema, formatOptsOf(units[i])) :
                IF out.err = <<>>
                THEN /\ units' = [units EXCEPT ![i].at = "formatted"]
                     /\ UNCHANGED <<groupErr, cancelled>>
                ELSE returnError(i, "FormatSchema")
    /\ UNCHANGED <<pc, clock, docsVars, diagramsErr, diagrams,
                   mergeVars, diffVars, sortVars, viewVars>>

\* target.RenderSchema(ctx, formattedSchema) of a unit.
unitRender ==
    /\ pc = "go"
    /\ \E i \in DOMAIN units :
          /\ units[i].at = "formatted"
          /\ \E failed \in BOOLEAN :
                IF failed
                THEN returnError(i, "RenderSchema")
                ELSE /\ units' = [units EXCEPT ![i].at = "rendered"]
                     /\ UNCHANGED <<groupErr, cancelled>>
    /\ UNCHANGED <<pc, clock, docsVars, diagramsErr, diagrams,
                   mergeVars, diffVars, sortVars, viewVars>>

\* os.WriteFile(path, diagram, 0644) of a unit, and its return.
unitWrite ==
    /\ pc = "go"
    /\ \E i \in DOMAIN units :
          /\ units[i].at = "rendered"
          /\ \E failed \in BOOLEAN :
                IF failed
                THEN /\ returnError(i, "WriteFile")
                     /\ diagrams' \in
                            {diagrams,
                             writeFile(diagrams, diagramFile(pathOf(units[i]), "", ""))}
                ELSE /\ units' = [units EXCEPT ![i].at = "done"]
                     /\ diagrams' =
                            writeFile(diagrams,
                                      diagramFile(pathOf(units[i]), units[i].Mode,
                                                  units[i].Name))
                     /\ UNCHANGED <<groupErr, cancelled>>
    /\ UNCHANGED <<pc, clock, docsVars, diagramsErr,
                   mergeVars, diffVars, sortVars, viewVars>>

\* g.Wait() once every function has returned, the return of
\* generateDiagrams, and what Generate makes of it.
Wait ==
    /\ pc = "go"
    /\ Len(units) = Len(unitsOf(current.Schema))
    /\ \A i \in DOMAIN units : units[i].at \in {"done", "failed"}
    /\ cancelled' = TRUE
    /\ diagramsErr' = groupErr
    /\ IF groupErr = <<>>
       THEN /\ err' = "nil"
            /\ pc' = "readme"
       ELSE /\ err' = "error generating diagrams"
            /\ pc' = "idle"
    /\ UNCHANGED <<clock, file, readme, current, runs, units, groupErr, diagrams,
                   mergeVars, diffVars, sortVars, viewVars>>

NextDiagrams ==
    \/ prepareDiagramsDir
    \/ Go
    \/ unitFormat
    \/ unitRender
    \/ unitWrite
    \/ Wait
    \/ createREADMEContent

SpecDiagrams == InitDiagrams /\ [][NextDiagrams]_vars

(***************************************************************************)
(* C21.  Diagram generation is a fan-out/fan-in with first error:          *)
(* generateDiagrams starts one unit for the context view, one per service  *)
(* and one per unique channel, returns only after every started unit has   *)
(* returned, returns nil iff every unit succeeded, and otherwise returns   *)
(* the error of the first unit that failed; after such an error Generate   *)
(* returns an error and does not write README.md.                          *)
(***************************************************************************)
\* The step is the return of generateDiagrams.
Returns == pc \in {"diagrams", "go"} /\ pc' \in {"idle", "readme"}

Failed(us) == {i \in DOMAIN us : us[i].at = "failed"}

\* The units are the ones of the schema, and all of them have returned.
AllStartedAndReturned ==
    /\ Len(units) = Len(unitsOf(current.Schema))
    /\ \A i \in DOMAIN units :
          /\ units[i].Mode = unitsOf(current.Schema)[i].Mode
          /\ units[i].Name = unitsOf(current.Schema)[i].Name
          /\ units[i].at \in {"done", "failed"}

\* The errgroup keeps the error of the first unit that fails, and that is
\* what generateDiagrams returns.
FirstErrorKept ==
    /\ (Failed(units) = {} /\ Failed(units') # {}) =>
           \A i \in Failed(units') : groupErr' = units'[i].err
    /\ Failed(units) # {} => groupErr' = groupErr
    /\ (Returns /\ pc = "go") => diagramsErr' = groupErr

\* After an error Generate returns an error and README.md stays.
NoReadmeAfterError ==
    /\ (Returns /\ diagramsErr' # <<>>) =>
           /\ err' = "error generating diagrams"
           /\ pc' = "idle"
           /\ readme' = readme
    /\ readme' # readme => diagramsErr = <<>> /\ pc = "readme"

C21_StepAsStated ==
    /\ Returns =>
           /\ AllStartedAndReturned
           /\ diagramsErr' = <<>> <=> Failed(units) = {}
    /\ FirstErrorKept
    /\ NoReadmeAfterError

C21_FanOutFanInAsStated == [][C21_StepAsStated]_vars

(***************************************************************************)
(* C21, amended.  As above for a call that has removed and made the        *)
(* diagrams directory; a call that fails to do so starts no unit and       *)
(* returns that error, and Generate returns an error and does not write    *)
(* README.md.                                                              *)
(***************************************************************************)
C21_Step ==
    /\ (Returns /\ pc = "go") =>
           /\ AllStartedAndReturned
           /\ diagramsErr' = <<>> <=> Failed(units) = {}
    /\ (Returns /\ pc = "diagrams") =>
           /\ units' = <<>>
           /\ diagramsErr' # <<>>
    /\ FirstErrorKept
    /\ NoReadmeAfterError

C21_FanOutFanIn == [][C21_Step]_vars

\* generateDiagrams has returned the error of one of two units that failed
\* in different calls, a third unit has written its diagram, and there is
\* no README.md.
C21_Witness ==
    /\ pc = "idle"
    /\ Len(units) = 4
    /\ \E i, j, k \in DOMAIN units :
          /\ units[i].at = "failed"
          /\ units[j].at = "failed"
          /\ units[i].err = diagramsErr
          /\ units[i].err[1].call = "RenderSchema"
          /\ units[j].err[1].call = "WriteFile"
          /\ units[k].at = "done"
    /\ err = "error generating diagrams"
    /\ readme = <<>>

(***************************************************************************)
(* C22.  Cooperative cancellation: every unit of diagram work checks the   *)
(* cancellation signal at its start, so that once a unit has failed and    *)
(* the context of the group is cancelled, a unit that begins afterwards    *)
(* performs no formatting, rendering or file write.                        *)
(***************************************************************************)
\* The units that have not begun.
Ready(us) == {i \in DOMAIN us : us[i].at = "ready"}

\* A unit that had not begun when the context was cancelled neither
\* formats, renders nor writes: it returns where it is.
C22_Step ==
    cancelled =>
        \A i \in Ready(units) :
            /\ units'[i].at \in {"ready", "failed"}
            /\ units'[i].err # <<>> => units'[i].err[1].call = "cancelled"

C22_CooperativeCancellation == [][C22_Step]_vars

(***************************************************************************)
(* C23.  Parallel projections write to distinct artifacts: in one call of  *)
(* generateDiagrams no two units write the same file, for any distinct     *)
(* service names and distinct channel names.                               *)
(***************************************************************************)
DistinctNames(schema) ==
    \A i, j \in DOMAIN schema.Services :
        schema.Services[i].Name = schema.Services[j].Name => i = j

C23_DistinctArtifacts ==
    DistinctNames(current.Schema) =>
        /\ \A i, j \in DOMAIN units : pathOf(units[i]) = pathOf(units[j]) => i = j
        /\ (pc \in {"go", "readme"} /\ \A i \in DOMAIN units : units[i].at = "done") =>
               Cardinality(diagrams) = Len(units)

====
